---- MODULE Spec2Model ----
(***************************************************************************)
(* Model of the normalization engine of FinFastAPIServer                   *)
(* (main_no_ai_v12.py: DataNormalizer; FinancialTools.py).                 *)
(*                                                                         *)
(* Strings are sequences of one-character strings, so that rfind, replace, *)
(* substring search and the year pattern are computed as the code computes *)
(* them.  Floats are exact decimals [k, m, e]: k = "fin" is the number     *)
(* m / 10^e with trailing zeros removed, k = "nan" / "inf" are what        *)
(* float() returns for the words nan, inf and infinity.  A DataFrame is    *)
(* [cols, rows]: the column labels in order and, per row, the cells in     *)
(* column order (labels may repeat, as pandas allows).                     *)
(***************************************************************************)
EXTENDS Integers, Sequences, FiniteSets, TLC

VARIABLES pc, args, ret

vars == <<pc, args, ret>>

(***************************************************************************)
(* Characters and strings                                                  *)
(***************************************************************************)
DigitChars == <<"0", "1", "2", "3", "4", "5", "6", "7", "8", "9">>

Digits == {DigitChars[i] : i \in 1..10}

DigitVal(c) == (CHOOSE i \in 1..10 : DigitChars[i] = c) - 1

Whitespace == {" ", "\t", "\n"}

CurrencySymbols == {"€", "$", "£"}

UpperChars == <<"A", "B", "C", "D", "E", "F", "G", "H", "I", "J", "K", "L", "M", "N", "O", "P", "Q", "R", "S", "T", "U", "V", "W", "X", "Y", "Z">>

LowerChars == <<"a", "b", "c", "d", "e", "f", "g", "h", "i", "j", "k", "l", "m", "n", "o", "p", "q", "r", "s", "t", "u", "v", "w", "x", "y", "z">>

\* str.lower() of one character
LowerChar(c) ==
    IF \E i \in 1..Len(UpperChars) : UpperChars[i] = c
    THEN LowerChars[CHOOSE i \in 1..Len(UpperChars) : UpperChars[i] = c]
    ELSE c

Lower(s) == [i \in 1..Len(s) |-> LowerChar(s[i])]

\* str.strip(): leading and trailing whitespace removed
Strip(s) ==
    LET keep == {i \in 1..Len(s) : s[i] \notin Whitespace}
    IN  IF keep = {} THEN <<>>
        ELSE SubSeq(s, CHOOSE i \in keep : \A j \in keep : i <= j,
                       CHOOSE i \in keep : \A j \in keep : i >= j)

\* re.sub(r'[...]', '', s): every character of the class removed
RECURSIVE RemoveChars(_, _)
RemoveChars(s, class) ==
    IF s = <<>> THEN <<>>
    ELSE IF Head(s) \in class THEN RemoveChars(Tail(s), class)
    ELSE <<Head(s)>> \o RemoveChars(Tail(s), class)

\* s.replace(old, new) for a one-character old and a string new
RECURSIVE Replace(_, _, _)
Replace(s, old, new) ==
    IF s = <<>> THEN <<>>
    ELSE IF Head(s) = old THEN new \o Replace(Tail(s), old, new)
    ELSE <<Head(s)>> \o Replace(Tail(s), old, new)

\* s.rfind(c): the highest 0-based index of c in s, -1 when absent
RFind(s, c) ==
    LET at == {i \in 1..Len(s) : s[i] = c}
    IN  IF at = {} THEN -1 ELSE (CHOOSE i \in at : \A j \in at : i >= j) - 1

\* c in s, for a one-character c
HasChar(s, c) == \E i \in 1..Len(s) : s[i] = c

\* needle in hay (substring test)
Contains(hay, needle) ==
    \E i \in 1..(Len(hay) - Len(needle) + 1) :
        SubSeq(hay, i, i + Len(needle) - 1) = needle

(***************************************************************************)
(* Floats                                                                  *)
(***************************************************************************)
RECURSIVE NormDec(_, _)
NormDec(m, e) ==
    IF e > 0 /\ m % 10 = 0 THEN NormDec(m \div 10, e - 1)
    ELSE [k |-> "fin", m |-> m, e |-> e]

Zero == [k |-> "fin", m |-> 0, e |-> 0]

NaN == [k |-> "nan", m |-> 0, e |-> 0]

Inf(sign) == [k |-> "inf", m |-> sign, e |-> 0]

RECURSIVE Pow10(_)
Pow10(n) == IF n = 0 THEN 1 ELSE 10 * Pow10(n - 1)

RECURSIVE DigitsToInt(_)
DigitsToInt(s) ==
    IF s = <<>> THEN 0 ELSE 10 * DigitsToInt(SubSeq(s, 1, Len(s) - 1)) + DigitVal(s[Len(s)])

\* -x
Neg(x) == IF x.k = "nan" THEN x ELSE [x EXCEPT !.m = -x.m]

\* x - y
Sub(x, y) ==
    IF x.k = "nan" \/ y.k = "nan" THEN NaN
    ELSE IF x.k = "inf" /\ y.k = "inf" THEN (IF x.m = y.m THEN NaN ELSE x)
    ELSE IF x.k = "inf" THEN x
    ELSE IF y.k = "inf" THEN Neg(y)
    ELSE LET e == IF x.e >= y.e THEN x.e ELSE y.e
         IN  NormDec(x.m * Pow10(e - x.e) - y.m * Pow10(e - y.e), e)

S_nan == <<"n", "a", "n">>

S_inf == <<"i", "n", "f">>

S_infinity == <<"i", "n", "f", "i", "n", "i", "t", "y">>

\* float(s) for a string without exponent or underscore: [ok, v]
ParseFloat(s0) ==
    LET s    == Strip(s0)
        sgn  == IF s # <<>> /\ s[1] = "-" THEN -1 ELSE 1
        body == IF s # <<>> /\ s[1] \in {"+", "-"} THEN Tail(s) ELSE s
        word == Lower(body)
        dots == {i \in 1..Len(body) : body[i] = "."}
        digs == RemoveChars(body, {"."})
        frac == IF dots = {} THEN 0 ELSE Len(body) - (CHOOSE i \in dots : TRUE)
    IN  IF word = S_nan THEN [ok |-> TRUE, v |-> NaN]
        ELSE IF word \in {S_inf, S_infinity} THEN [ok |-> TRUE, v |-> Inf(sgn)]
        ELSE IF /\ Cardinality(dots) <= 1
                /\ digs # <<>>
                /\ \A i \in 1..Len(digs) : digs[i] \in Digits
             THEN [ok |-> TRUE, v |-> NormDec(sgn * DigitsToInt(digs), frac)]
             ELSE [ok |-> FALSE, v |-> Zero]

RECURSIVE IntToStr(_)
IntToStr(n) ==
    IF n < 10 THEN <<DigitChars[n + 1]>>
    ELSE IntToStr(n \div 10) \o <<DigitChars[(n % 10) + 1]>>

RECURSIVE PadLeft(_, _)
PadLeft(s, n) == IF Len(s) >= n THEN s ELSE PadLeft(<<"0">> \o s, n)

\* str(x) of a number
NumToStr(x) ==
    IF x.k = "nan" THEN S_nan
    ELSE IF x.k = "inf" THEN (IF x.m < 0 THEN <<"-">> ELSE <<>>) \o S_inf
    ELSE LET a == IF x.m < 0 THEN -x.m ELSE x.m
             d == PadLeft(IntToStr(a), x.e + 1)
         IN  (IF x.m < 0 THEN <<"-">> ELSE <<>>)
             \o SubSeq(d, 1, Len(d) - x.e)
             \o (IF x.e = 0 THEN <<>> ELSE <<".">> \o SubSeq(d, Len(d) - x.e + 1, Len(d)))

(***************************************************************************)
(* Cells                                                                   *)
(***************************************************************************)
\* None / NaN
NA == [t |-> "na", s |-> <<>>, n |-> Zero]

StrCell(s) == [t |-> "str", s |-> s, n |-> Zero]

NumCell(x) == IF x.k = "nan" THEN NA ELSE [t |-> "num", s |-> <<>>, n |-> x]

\* pd.isna(value)
IsNA(c) == c.t = "na"

\* str(value)
CellStr(c) == IF c.t = "str" THEN c.s ELSE NumToStr(c.n)

(***************************************************************************)
(* DataNormalizer.clean_numeric                                            *)
(***************************************************************************)
\* FixSeparators with the first separator, not the last, taken as the decimal one
FixSeparators_first(str_value) ==
    IF HasChar(str_value, ",") /\ HasChar(str_value, ".")
    THEN LET last_comma == RFind(str_value, ",")
             last_dot   == RFind(str_value, ".")
         IN  IF last_comma < last_dot
             THEN Replace(Replace(str_value, ".", <<>>), ",", <<".">>)
             ELSE Replace(str_value, ",", <<>>)
    ELSE IF HasChar(str_value, ",")
    THEN IF RFind(str_value, ",") > Len(str_value) - 4
         THEN Replace(str_value, ",", <<".">>)
         ELSE Replace(str_value, ",", <<>>)
    ELSE str_value

\* FixSeparators with the comma test one character short
FixSeparators_last2(str_value) ==
    IF HasChar(str_value, ",") /\ HasChar(str_value, ".")
    THEN LET last_comma == RFind(str_value, ",")
             last_dot   == RFind(str_value, ".")
         IN  IF last_comma > last_dot
             THEN Replace(Replace(str_value, ".", <<>>), ",", <<".">>)
             ELSE Replace(str_value, ",", <<>>)
    ELSE IF HasChar(str_value, ",")
    THEN IF RFind(str_value, ",") > Len(str_value) - 3
         THEN Replace(str_value, ",", <<".">>)
         ELSE Replace(str_value, ",", <<>>)
    ELSE str_value

\* the separator handling: lines 734-745
FixSeparators(str_value) ==
    IF HasChar(str_value, ",") /\ HasChar(str_value, ".")
    THEN LET last_comma == RFind(str_value, ",")
             last_dot   == RFind(str_value, ".")
         IN  IF last_comma > last_dot
             THEN Replace(Replace(str_value, ".", <<>>), ",", <<".">>)
             ELSE Replace(str_value, ",", <<>>)
    ELSE IF HasChar(str_value, ",")
    THEN IF RFind(str_value, ",") > Len(str_value) - 4
         THEN Replace(str_value, ",", <<".">>)
         ELSE Replace(str_value, ",", <<>>)
    ELSE str_value

clean_numeric(value) ==
    IF IsNA(value) \/ value = StrCell(<<>>) THEN Zero
    ELSE LET str_value == RemoveChars(Strip(CellStr(value)), CurrencySymbols \cup Whitespace)
             parsed    == ParseFloat(FixSeparators(str_value))
         IN  IF parsed.ok THEN parsed.v ELSE Zero

(***************************************************************************)
(* DataNormalizer.detect_format                                            *)
(***************************************************************************)
T_concepto == <<"c", "o", "n", "c", "e", "p", "t", "o">>

T_nombre == <<"n", "o", "m", "b", "r", "e">>

T_concept == <<"c", "o", "n", "c", "e", "p", "t">>

T_name == <<"n", "a", "m", "e">>

T_fecha == <<"f", "e", "c", "h", "a">>

T_date == <<"d", "a", "t", "e">>

T_importe == <<"i", "m", "p", "o", "r", "t", "e">>

T_monto == <<"m", "o", "n", "t", "o">>

T_amount == <<"a", "m", "o", "u", "n", "t">>

T_cantidad == <<"c", "a", "n", "t", "i", "d", "a", "d">>

T_categoria == <<"c", "a", "t", "e", "g", "o", "r", "i", "a">>

T_category == <<"c", "a", "t", "e", "g", "o", "r", "y">>

T_tipo == <<"t", "i", "p", "o">>

T_type == <<"t", "y", "p", "e">>

T_presupuesto == <<"p", "r", "e", "s", "u", "p", "u", "e", "s", "t", "o">>

T_budget == <<"b", "u", "d", "g", "e", "t">>

T_planeado == <<"p", "l", "a", "n", "e", "a", "d", "o">>

T_real == <<"r", "e", "a", "l">>

T_actual == <<"a", "c", "t", "u", "a", "l">>

T_ejecutado == <<"e", "j", "e", "c", "u", "t", "a", "d", "o">>

T_debe == <<"d", "e", "b", "e">>

T_debit == <<"d", "e", "b", "i", "t">>

T_haber == <<"h", "a", "b", "e", "r">>

T_credit == <<"c", "r", "e", "d", "i", "t">>

ConceptTerms == <<T_concepto, T_nombre, T_concept, T_name>>

DateTerms == <<T_fecha, T_date>>

AmountTerms == <<T_importe, T_monto, T_amount, T_cantidad>>

CategoryTerms == <<T_categoria, T_category, T_tipo, T_type>>

BudgetTerms == <<T_presupuesto, T_budget, T_planeado>>

ActualTerms == <<T_real, T_actual, T_ejecutado>>

DebitTerms == <<T_debe, T_debit>>

CreditTerms == <<T_haber, T_credit>>

\* confidences, in units of 1/10000
CONF_FINANCIAL_STATEMENT == 9000

CONF_BUDGET == 9500

CONF_TRANSACTIONAL == 8500

CONF_DEBIT_CREDIT == 8000

W_ONLY_2_YEARS == "Solo se detectaron 2 años, se recomienda al menos 3 para análisis de tendencias"

W_NO_CATEGORY == "No se detectó columna de categoría, los análisis serán limitados"

W_DEBIT_CREDIT_FORMAT == "Formato debe/haber detectado, se convertirá a importe con signo"

W_UNKNOWN_FORMAT == "No se pudo determinar el formato automáticamente"

\* year_pattern_match with any lower-case letter allowed in front
year_pattern_match_any_letter(c) ==
    LET after_l == IF Len(c) >= 1 /\ (\E i \in 1..Len(LowerChars) : LowerChars[i] = c[1])
                   THEN 2 ELSE 1
        FourDigitsToEnd(from) ==
            /\ Len(c) = from + 3
            /\ \A i \in from..(from + 3) : c[i] \in Digits
    IN  FourDigitsToEnd(after_l) \/ FourDigitsToEnd(1)

\* re.compile(r'^a?\d{4}$').match(c), for a name without a line break
year_pattern_match(c) ==
    LET after_a == IF Len(c) >= 1 /\ c[1] = "a" THEN 2 ELSE 1
        FourDigitsToEnd(from) ==
            /\ Len(c) = from + 3
            /\ \A i \in from..(from + 3) : c[i] \in Digits
    IN  FourDigitsToEnd(after_a) \/ FourDigitsToEnd(1)

\* ' '.join(names)
RECURSIVE JoinSpace(_)
JoinSpace(names) ==
    IF names = <<>> THEN <<>>
    ELSE IF Len(names) = 1 THEN names[1]
    ELSE names[1] \o <<" ">> \o JoinSpace(Tail(names))

\* any(term in ' '.join(cols_lower) for term in terms)
has_term(cols_lower, terms) ==
    \E i \in 1..Len(terms) : Contains(JoinSpace(cols_lower), terms[i])

\* classify with the budget rule tried before the financial-statement rule
classify_budget_first(n_years, has) ==
    IF has.budget /\ has.actual /\ (has.category \/ has.concept)
    THEN [format |-> "budget", confidence |-> CONF_BUDGET, warnings |-> <<>>]
    ELSE IF n_years >= 2 /\ has.concept
    THEN [format |-> "financial_statement", confidence |-> CONF_FINANCIAL_STATEMENT,
          warnings |-> IF n_years < 3 THEN <<W_ONLY_2_YEARS>> ELSE <<>>]
    ELSE IF has.date /\ has.amount
    THEN [format |-> "transactional", confidence |-> CONF_TRANSACTIONAL,
          warnings |-> IF ~has.category THEN <<W_NO_CATEGORY>> ELSE <<>>]
    ELSE IF has.debit /\ has.credit
    THEN [format |-> "transactional", confidence |-> CONF_DEBIT_CREDIT,
          warnings |-> <<W_DEBIT_CREDIT_FORMAT>>]
    ELSE [format |-> "unknown", confidence |-> 0, warnings |-> <<W_UNKNOWN_FORMAT>>]

\* classify with the category test of the transactional warning dropped
classify_always_warns(n_years, has) ==
    IF n_years >= 2 /\ has.concept
    THEN [format |-> "financial_statement", confidence |-> CONF_FINANCIAL_STATEMENT,
          warnings |-> IF n_years < 3 THEN <<W_ONLY_2_YEARS>> ELSE <<>>]
    ELSE IF has.budget /\ has.actual /\ (has.category \/ has.concept)
    THEN [format |-> "budget", confidence |-> CONF_BUDGET, warnings |-> <<>>]
    ELSE IF has.date /\ has.amount
    THEN [format |-> "transactional", confidence |-> CONF_TRANSACTIONAL,
          warnings |-> <<W_NO_CATEGORY>>]
    ELSE IF has.debit /\ has.credit
    THEN [format |-> "transactional", confidence |-> CONF_DEBIT_CREDIT,
          warnings |-> <<W_DEBIT_CREDIT_FORMAT>>]
    ELSE [format |-> "unknown", confidence |-> 0, warnings |-> <<W_UNKNOWN_FORMAT>>]

\* the classification: lines 695-722
classify(n_years, has) ==
    IF n_years >= 2 /\ has.concept
    THEN [format |-> "financial_statement", confidence |-> CONF_FINANCIAL_STATEMENT,
          warnings |-> IF n_years < 3 THEN <<W_ONLY_2_YEARS>> ELSE <<>>]
    ELSE IF has.budget /\ has.actual /\ (has.category \/ has.concept)
    THEN [format |-> "budget", confidence |-> CONF_BUDGET, warnings |-> <<>>]
    ELSE IF has.date /\ has.amount
    THEN [format |-> "transactional", confidence |-> CONF_TRANSACTIONAL,
          warnings |-> IF ~has.category THEN <<W_NO_CATEGORY>> ELSE <<>>]
    ELSE IF has.debit /\ has.credit
    THEN [format |-> "transactional", confidence |-> CONF_DEBIT_CREDIT,
          warnings |-> <<W_DEBIT_CREDIT_FORMAT>>]
    ELSE [format |-> "unknown", confidence |-> 0, warnings |-> <<W_UNKNOWN_FORMAT>>]

\* the names detect_format works on: line 104
cols_lower_of(columns) == [i \in 1..Len(columns) |-> Strip(Lower(columns[i]))]

\* the year columns detect_format finds: line 683
detect_year_cols(columns) == SelectSeq(cols_lower_of(columns), year_pattern_match)

\* the term flags: lines 686-693
detect_flags(columns) ==
    LET cols_lower == cols_lower_of(columns)
    IN  [concept  |-> has_term(cols_lower, ConceptTerms),
         date     |-> has_term(cols_lower, DateTerms),
         amount   |-> has_term(cols_lower, AmountTerms),
         category |-> has_term(cols_lower, CategoryTerms),
         budget   |-> has_term(cols_lower, BudgetTerms),
         actual   |-> has_term(cols_lower, ActualTerms),
         debit    |-> has_term(cols_lower, DebitTerms),
         credit   |-> has_term(cols_lower, CreditTerms)]

detect_format(columns) == classify(Len(detect_year_cols(columns)), detect_flags(columns))

(***************************************************************************)
(* DataFrames                                                              *)
(***************************************************************************)
RECURSIVE PickIdx(_, _, _)
PickIdx(s, keep, i) ==
    IF i > Len(s) THEN <<>>
    ELSE (IF i \in keep THEN <<s[i]>> ELSE <<>>) \o PickIdx(s, keep, i + 1)

\* name in df.columns
HasCol(df, name) == \E i \in 1..Len(df.cols) : df.cols[i] = name

ColPos(df, name) == CHOOSE i \in 1..Len(df.cols) : df.cols[i] = name

\* df[name], per row
Column(df, name) == [r \in 1..Len(df.rows) |-> df.rows[r][ColPos(df, name)]]

\* df[name] = values: in place when the label exists, appended otherwise
SetColumn(df, name, values) ==
    IF HasCol(df, name)
    THEN [df EXCEPT !.rows = [r \in 1..Len(df.rows) |->
                                 [df.rows[r] EXCEPT ![ColPos(df, name)] = values[r]]]]
    ELSE [cols |-> Append(df.cols, name),
          rows |-> [r \in 1..Len(df.rows) |-> Append(df.rows[r], values[r])]]

\* df.drop(columns=labels)
DropColumns(df, labels) ==
    LET keep == {i \in 1..Len(df.cols) : df.cols[i] \notin labels}
    IN  [cols |-> PickIdx(df.cols, keep, 1),
         rows |-> [r \in 1..Len(df.rows) |-> PickIdx(df.rows[r], keep, 1)]]

\* df.dropna(how='all')
dropna_rows(df) ==
    [df EXCEPT !.rows = SelectSeq(df.rows, LAMBDA row : \E i \in 1..Len(row) : ~IsNA(row[i]))]

\* dropna_columns that looks at the first row only
dropna_columns_first_row(df) ==
    LET keep == {i \in 1..Len(df.cols) : df.rows # <<>> /\ ~IsNA(df.rows[1][i])}
    IN  [cols |-> PickIdx(df.cols, keep, 1),
         rows |-> [r \in 1..Len(df.rows) |-> PickIdx(df.rows[r], keep, 1)]]

\* df.dropna(axis=1, how='all')
dropna_columns(df) ==
    LET keep == {i \in 1..Len(df.cols) : \E r \in 1..Len(df.rows) : ~IsNA(df.rows[r][i])}
    IN  [cols |-> PickIdx(df.cols, keep, 1),
         rows |-> [r \in 1..Len(df.rows) |-> PickIdx(df.rows[r], keep, 1)]]

RECURSIVE Flatten(_)
Flatten(ss) == IF ss = <<>> THEN <<>> ELSE Head(ss) \o Flatten(Tail(ss))

InSeq(x, s) == \E i \in 1..Len(s) : s[i] = x

(***************************************************************************)
(* DataNormalizer.unpivot_years and DataNormalizer.apply_debe_haber        *)
(***************************************************************************)
C_anio == <<"a", "ñ", "o">>

C_importe == T_importe

C_fecha == T_fecha

C_categoria == T_categoria

C_concepto == T_concepto

C_debe_clean == <<"d", "e", "b", "e", "_", "c", "l", "e", "a", "n">>

C_haber_clean == <<"h", "a", "b", "e", "r", "_", "c", "l", "e", "a", "n">>

\* melt with one block of rows per original row instead of per value column
melt_row_major(df, id_vars, value_vars) ==
    IF HasCol(df, C_importe) THEN [error |-> "ValueError", df |-> df]
    ELSE IF \E i \in 1..Len(value_vars) : ~HasCol(df, value_vars[i])
    THEN [error |-> "KeyError", df |-> df]
    ELSE [error |-> "",
          df |-> [cols |-> id_vars \o <<C_anio, C_importe>>,
                  rows |-> Flatten([r \in 1..Len(df.rows) |->
                              [j \in 1..Len(value_vars) |->
                                  [i \in 1..Len(id_vars) |-> df.rows[r][ColPos(df, id_vars[i])]]
                                  \o <<StrCell(value_vars[j]),
                                       df.rows[r][ColPos(df, value_vars[j])]>>]])]]

\* df.melt(id_vars, value_vars, var_name='año', value_name='importe'): one block
\* of rows per value column, in the order of value_vars; it raises when the
\* value name is a column already and when a listed column is missing
melt(df, id_vars, value_vars) ==
    IF HasCol(df, C_importe) THEN [error |-> "ValueError", df |-> df]
    ELSE IF \E i \in 1..Len(value_vars) : ~HasCol(df, value_vars[i])
    THEN [error |-> "KeyError", df |-> df]
    ELSE [error |-> "",
          df |-> [cols |-> id_vars \o <<C_anio, C_importe>>,
                  rows |-> Flatten([j \in 1..Len(value_vars) |->
                              [r \in 1..Len(df.rows) |->
                                  [i \in 1..Len(id_vars) |-> df.rows[r][ColPos(df, id_vars[i])]]
                                  \o <<StrCell(value_vars[j]),
                                       df.rows[r][ColPos(df, value_vars[j])]>>]])]]

\* clean_year that removes a leading a only
clean_year_leading(name) == IF name # <<>> /\ name[1] = "a" THEN Tail(name) ELSE name

\* .str.replace('a', '', regex=False) on the year of a row: line 771
clean_year(name) == Replace(name, "a", <<>>)

unpivot_years(df, concept_col, year_cols) ==
    LET id_cols   == SelectSeq(df.cols, LAMBDA c : ~InSeq(c, year_cols))
        df_melted == melt(df, id_cols, year_cols)
        n         == Len(id_cols)
    IN  IF df_melted.error # "" THEN df_melted
        ELSE [error |-> "",
              df |-> [df_melted.df EXCEPT !.rows =
                        [r \in 1..Len(df_melted.df.rows) |->
                            [df_melted.df.rows[r] EXCEPT
                                ![n + 1] = StrCell(clean_year(@.s)),
                                ![n + 2] = NumCell(clean_numeric(@))]]]]

\* the float a cell of a float column holds
CellNum(c) == IF c.t = "num" THEN c.n ELSE NaN

\* lines 787-792, one assignment after the other: each reads the frame the
\* assignments before it have left
apply_debe_haber(df, debit_col, credit_col) ==
    LET cleaned(d, col) ==
            [r \in 1..Len(d.rows) |-> NumCell(clean_numeric(Column(d, col)[r]))]
        df1 == SetColumn(df, C_debe_clean, cleaned(df, debit_col))
        df2 == SetColumn(df1, C_haber_clean, cleaned(df1, credit_col))
        df3 == SetColumn(df2, C_importe,
                         [r \in 1..Len(df2.rows) |->
                             NumCell(Sub(CellNum(Column(df2, C_debe_clean)[r]),
                                         CellNum(Column(df2, C_haber_clean)[r])))])
    IN  DropColumns(df3, {C_debe_clean, C_haber_clean, debit_col, credit_col})

(***************************************************************************)
(* DataNormalizer.normalize                                                *)
(*                                                                         *)
(* mapping and rules are dicts: records whose domain is the set of keys    *)
(* present.  A stage is [df, warnings, transformations, format_detected,   *)
(* confidence, error]; error names the exception raised so far ("" when    *)
(* none), and a raised exception passes through the later stages.          *)
(***************************************************************************)
\* Python's None as a dict value
NoneV == <<"None">>

\* d.get(key, default)
Get(d, key, default) == IF key \in DOMAIN d THEN d[key] ELSE default

\* truth value of a string-or-None
Truthy(v) == v # NoneV /\ v # <<>>

Log(msg, n, fmt, cols) == [msg |-> msg, n |-> n, fmt |-> fmt, cols |-> cols]

W_DEBE_HABER_NOT_FOUND == "Debe/haber solicitado pero columnas no encontradas"

W_NO_CONCEPT == "Unpivot solicitado pero no se encontró columna de concepto"

W_NO_FECHA == "ADVERTENCIA: Formato transaccional pero sin columna 'fecha'"

W_NO_IMPORTE == "ADVERTENCIA: Formato transaccional pero sin columna 'importe'"

W_NO_CONCEPTO == "ADVERTENCIA: Estado financiero pero sin columna 'concepto'"

L_ROWS_DROPPED == "Eliminadas {dropped} filas vacías"

L_COLS_DROPPED == "Eliminadas {dropped} columnas vacías"

L_FORMAT == "Formato detectado: {format_detected} (confianza: {confidence:.0%})"

L_DEBE_HABER == "Convertido debe/haber a importe: {debit_col} - {credit_col}"

L_UNPIVOT == "Unpivot aplicado: {len(year_cols)} años → formato largo"

L_UNPIVOT_AUTO == "Unpivot aplicado (auto-detectado concepto: {col})"

L_INVERTED == "Signos invertidos en columna de importe"

L_RENAMED == "Columnas renombradas: {list(rename_map.keys())}"

\* lines 823-828: the frame with its labels stripped and lower-cased
stage_frame(data) ==
    [df |-> [cols |-> [i \in 1..Len(data.cols) |-> Lower(Strip(data.cols[i]))],
             rows |-> data.rows],
     warnings |-> <<>>, transformations |-> <<>>,
     format_detected |-> "unknown", confidence |-> 0, error |-> ""]

\* lines 831-836
stage_drop_rows(st, rules) ==
    IF st.error # "" \/ ~Get(rules, "drop_empty_rows", TRUE) THEN st
    ELSE LET df      == dropna_rows(st.df)
             dropped == Len(st.df.rows) - Len(df.rows)
         IN  [st EXCEPT !.df = df,
                        !.transformations =
                            IF dropped > 0 THEN Append(@, Log(L_ROWS_DROPPED, dropped, "", <<>>))
                            ELSE @]

\* lines 838-843
stage_drop_columns(st, rules) ==
    IF st.error # "" \/ ~Get(rules, "drop_empty_columns", TRUE) THEN st
    ELSE LET df      == dropna_columns(st.df)
             dropped == Len(st.df.cols) - Len(df.cols)
         IN  [st EXCEPT !.df = df,
                        !.transformations =
                            IF dropped > 0 THEN Append(@, Log(L_COLS_DROPPED, dropped, "", <<>>))
                            ELSE @]

\* lines 846-850
stage_detect(st, rules) ==
    IF st.error # "" \/ ~Get(rules, "detect_format", TRUE) THEN st
    ELSE LET d == detect_format(st.df.cols)
         IN  [st EXCEPT !.format_detected = d.format,
                        !.confidence = d.confidence,
                        !.warnings = @ \o d.warnings,
                        !.transformations = Append(@, Log(L_FORMAT, d.confidence, d.format, <<>>))]

\* lines 853-861
stage_debe_haber(st, mapping, rules) ==
    IF st.error # "" \/ ~Get(rules, "debe_haber", FALSE) THEN st
    ELSE LET debit_col  == Get(mapping, "debit_column", NoneV)
             credit_col == Get(mapping, "credit_column", NoneV)
         IN  IF /\ Truthy(debit_col) /\ Truthy(credit_col)
                /\ HasCol(st.df, debit_col) /\ HasCol(st.df, credit_col)
             THEN [st EXCEPT !.df = apply_debe_haber(st.df, debit_col, credit_col),
                             !.transformations =
                                 Append(@, Log(L_DEBE_HABER, 0, "", <<debit_col, credit_col>>))]
             ELSE [st EXCEPT !.warnings = Append(@, W_DEBE_HABER_NOT_FOUND)]

\* lines 865-870 and 1375: the year columns the unpivot step works on
resolve_year_cols(df, rules) ==
    LET year_cols == Get(rules, "unpivot_year_columns", <<>>)
    IN  IF year_cols = <<>> THEN SelectSeq(df.cols, year_pattern_match) ELSE year_cols

\* line 1384
is_concept_name(col) == \E i \in 1..Len(ConceptTerms) : Contains(col, ConceptTerms[i])

\* the outcome of unpivot_years put into the stage
unpivoted(st, out, entry) ==
    IF out.error # "" THEN [st EXCEPT !.error = out.error]
    ELSE [st EXCEPT !.df = out.df,
                    !.transformations = Append(@, entry),
                    !.format_detected = "transactional"]

\* lines 864-870 and 1375-1390
stage_unpivot(st, mapping, rules) ==
    IF st.error # "" \/ ~Get(rules, "unpivot", FALSE) THEN st
    ELSE LET year_cols   == resolve_year_cols(st.df, rules)
             concept_col == Get(mapping, "concept_column", NoneV)
             found       == {i \in 1..Len(st.df.cols) : is_concept_name(st.df.cols[i])}
         IN  IF year_cols # <<>> /\ Truthy(concept_col) /\ HasCol(st.df, concept_col)
             THEN unpivoted(st, unpivot_years(st.df, concept_col, year_cols),
                            Log(L_UNPIVOT, Len(year_cols), "", <<>>))
             ELSE IF year_cols # <<>> /\ ~Truthy(concept_col)
             THEN IF found # {}
                  THEN LET col == st.df.cols[CHOOSE i \in found : \A j \in found : i <= j]
                       IN  unpivoted(st, unpivot_years(st.df, col, year_cols),
                                     Log(L_UNPIVOT_AUTO, 0, "", <<col>>))
                  ELSE [st EXCEPT !.warnings = Append(@, W_NO_CONCEPT)]
             ELSE st

\* invert_cell that makes every number negative instead of changing its sign
invert_cell_negative(x) ==
    IF x.t = "num" THEN NumCell([x.n EXCEPT !.m = IF @ > 0 THEN -@ ELSE @]) ELSE x

\* line 1396: lambda x: -x if isinstance(x, (int, float)) else x
invert_cell(x) == IF x.t = "num" THEN NumCell(Neg(x.n)) ELSE x

\* lines 1393-1397
stage_invert(st, mapping, rules) ==
    IF st.error # "" \/ ~Get(rules, "invert_negatives", FALSE) THEN st
    ELSE LET amount_col == Get(mapping, "amount_column", C_importe)
         IN  IF HasCol(st.df, amount_col)
             THEN [st EXCEPT !.df = SetColumn(st.df, amount_col,
                                        [r \in 1..Len(st.df.rows) |->
                                            invert_cell(Column(st.df, amount_col)[r])]),
                             !.transformations = Append(@, Log(L_INVERTED, 0, "", <<>>))]
             ELSE st

\* rename_pairs with the targets of the category and the concept role exchanged
rename_pairs_swapped(df, mapping) ==
    LET pair(key, target) ==
            IF Truthy(Get(mapping, key, NoneV)) /\ HasCol(df, Get(mapping, key, NoneV))
            THEN << <<Get(mapping, key, NoneV), target>> >> ELSE <<>>
    IN  pair("date_column", C_fecha) \o pair("amount_column", C_importe)
        \o pair("category_column", C_concepto) \o pair("concept_column", C_categoria)

\* lines 1400-1408: the (source, target) pairs in the order they are assigned
rename_pairs(df, mapping) ==
    LET pair(key, target) ==
            IF Truthy(Get(mapping, key, NoneV)) /\ HasCol(df, Get(mapping, key, NoneV))
            THEN << <<Get(mapping, key, NoneV), target>> >> ELSE <<>>
    IN  pair("date_column", C_fecha) \o pair("amount_column", C_importe)
        \o pair("category_column", C_categoria) \o pair("concept_column", C_concepto)

\* rename_map[c] for a key c: the value assigned last
rename_target(pairs, c) ==
    LET at == {i \in 1..Len(pairs) : pairs[i][1] = c}
    IN  IF at = {} THEN c ELSE pairs[CHOOSE i \in at : \A j \in at : i >= j][2]

\* list(rename_map.keys())
rename_keys(pairs) ==
    LET first == {i \in 1..Len(pairs) : \A j \in 1..(i - 1) : pairs[j][1] # pairs[i][1]}
    IN  [i \in 1..Len(PickIdx(pairs, first, 1)) |-> PickIdx(pairs, first, 1)[i][1]]

\* lines 1400-1412
stage_rename(st, mapping) ==
    IF st.error # "" THEN st
    ELSE LET pairs == rename_pairs(st.df, mapping)
         IN  IF pairs = <<>> THEN st
             ELSE [st EXCEPT !.df.cols = [i \in 1..Len(@) |-> rename_target(pairs, @[i])],
                             !.transformations =
                                 Append(@, Log(L_RENAMED, 0, "", rename_keys(pairs)))]

\* Times07 that divides by 0.7
Times07_divides(c) == (c * 10) \div 7

\* confidence *= 0.7 and confidence *= 0.8, in units of 1/10000
Times07(c) == (c * 7) \div 10

Times08(c) == (c * 8) \div 10

\* lines 1415-1426
stage_validate(st) ==
    IF st.error # "" THEN st
    ELSE LET no_fecha    == st.format_detected = "transactional" /\ ~HasCol(st.df, C_fecha)
             no_importe  == st.format_detected = "transactional" /\ ~HasCol(st.df, C_importe)
             no_concepto == st.format_detected = "financial_statement"
                            /\ ~HasCol(st.df, C_concepto)
             c1          == IF no_fecha THEN Times07(st.confidence) ELSE st.confidence
             c2          == IF no_importe THEN Times07(c1) ELSE c1
             c3          == IF no_concepto THEN Times08(c2) ELSE c2
         IN  [st EXCEPT !.confidence = c3,
                        !.warnings = @ \o (IF no_fecha THEN <<W_NO_FECHA>> ELSE <<>>)
                                       \o (IF no_importe THEN <<W_NO_IMPORTE>> ELSE <<>>)
                                       \o (IF no_concepto THEN <<W_NO_CONCEPTO>> ELSE <<>>)]

\* round(confidence, 2): the products of the code's constants that end in 50
\* are binary floats just below the tie (0.95 * 0.7, 0.85 * 0.7), so ties go down
round2(c) == ((c + 49) \div 100) * 100

\* df.to_dict('records'): per row a dict keyed by label, the last of equal labels winning
to_dict_records(df) ==
    [r \in 1..Len(df.rows) |->
        [c \in {df.cols[i] : i \in 1..Len(df.cols)} |->
            df.rows[r][CHOOSE i \in 1..Len(df.cols) :
                          /\ df.cols[i] = c
                          /\ \A j \in (i + 1)..Len(df.cols) : df.cols[j] # c]]]

\* lines 1429-1439; an exception leaves no result
assemble(st) ==
    IF st.error # ""
    THEN [raised |-> TRUE, error |-> st.error, normalized_data |-> <<>>,
          format_detected |-> "", confidence |-> 0, warnings |-> <<>>,
          transformations_applied |-> <<>>, columns |-> <<>>, rows |-> 0]
    ELSE [raised |-> FALSE, error |-> "", normalized_data |-> to_dict_records(st.df),
          format_detected |-> st.format_detected, confidence |-> round2(st.confidence),
          warnings |-> st.warnings, transformations_applied |-> st.transformations,
          columns |-> st.df.cols, rows |-> Len(st.df.rows)]

\* the stages in the order normalize runs them
after_prune(data, rules) == stage_drop_columns(stage_drop_rows(stage_frame(data), rules), rules)

after_detect(data, rules) == stage_detect(after_prune(data, rules), rules)

after_debe_haber(data, mapping, rules) ==
    stage_debe_haber(after_detect(data, rules), mapping, rules)

after_unpivot(data, mapping, rules) ==
    stage_unpivot(after_debe_haber(data, mapping, rules), mapping, rules)

after_invert(data, mapping, rules) ==
    stage_invert(after_unpivot(data, mapping, rules), mapping, rules)

after_rename(data, mapping, rules) == stage_rename(after_invert(data, mapping, rules), mapping)

normalize(data, mapping, rules) == assemble(stage_validate(after_rename(data, mapping, rules)))

(***************************************************************************)
(* clean_numeric as a call: the inputs are every string over CleanAlphabet *)
(* of at most MaxStrLen characters, the strings the specification quotes,  *)
(* null and two numbers.                                                   *)
(***************************************************************************)
MaxStrLen == 5

CleanAlphabet == {"0", "1", ",", ".", "$", " "}

RECURSIVE StringsUpTo(_, _)
StringsUpTo(alphabet, n) ==
    IF n = 0 THEN {<<>>}
    ELSE LET shorter == StringsUpTo(alphabet, n - 1)
         IN  shorter \cup {Append(s, c) : s \in {t \in shorter : Len(t) = n - 1}, c \in alphabet}

S_european == <<"1", ".", "2", "3", "4", ",", "5", "6">>

S_american == <<"1", ",", "2", "3", "4", ".", "5", "6">>

S_12c5 == <<"1", "2", ",", "5">>

S_1c234 == <<"1", ",", "2", "3", "4">>

S_12c000 == <<"1", "2", ",", "0", "0", "0">>

S_1p000c00 == <<"1", ".", "0", "0", "0", ",", "0", "0">>

S_1p500c00 == <<"1", ".", "5", "0", "0", ",", "0", "0">>

S_garbage == <<"x", "y">>

QuotedStrings ==
    {S_european, S_american, S_12c5, S_1c234, S_12c000, S_1p000c00, S_1p500c00,
     S_garbage, S_nan, S_inf, <<"€", "1", "2", ",", "5", "0">>, <<"-", "1", ",", "5">>}

CleanInputs ==
    {StrCell(s) : s \in StringsUpTo(CleanAlphabet, MaxStrLen) \cup QuotedStrings}
    \cup {NA, NumCell(NormDec(25, 1)), NumCell(NormDec(-3, 0))}

InitClean ==
    /\ pc = "called"
    /\ args \in {[op |-> "clean_numeric", value |-> v] : v \in CleanInputs}
    /\ ret = NA

CleanNumericCall ==
    /\ pc = "called"
    /\ args.op = "clean_numeric"
    /\ ret' = clean_numeric(args.value)
    /\ pc' = "returned"
    /\ UNCHANGED args

NextClean == CleanNumericCall

SpecClean == InitClean /\ [][NextClean]_vars

(***************************************************************************)
(* detect_format as a call: the inputs are the tables whose columns are at *)
(* most MaxDetectCols names of DetectPool.                                 *)
(***************************************************************************)
N_Concepto == <<"C", "o", "n", "c", "e", "p", "t", "o">>

N_a2020 == <<"a", "2", "0", "2", "0">>

N_a2021 == <<"a", "2", "0", "2", "1">>

N_a2022 == <<"a", "2", "0", "2", "2">>

N_2023 == <<"2", "0", "2", "3">>

N_b2020 == <<"b", "2", "0", "2", "0">>

N_A2024pad == <<" ", "A", "2", "0", "2", "4", " ">>

N_a20201 == <<"a", "2", "0", "2", "0", "1">>

N_x == <<"x">>

N_update == <<"u", "p", "d", "a", "t", "e">>

N_data2020 == <<"d", "a", "t", "a", "2", "0", "2", "0">>

N_a2020a == <<"a", "2", "0", "2", "0", "a">>

N_a2099 == <<"a", "2", "0", "9", "9">>

N_Debe == <<"D", "e", "b", "e">>

DetectPool ==
    <<N_Concepto, N_a2020, N_a2021, N_a2022, N_2023, N_b2020, N_A2024pad, N_a20201,
      T_fecha, T_importe, T_categoria, T_presupuesto, T_real, T_debe, T_haber,
      N_update, N_x>>

MaxDetectCols == 5

\* the sub-sequences of pool with at most n entries
SubSeqsUpTo(pool, n) ==
    {PickIdx(pool, S, 1) : S \in {T \in SUBSET (1..Len(pool)) : Cardinality(T) <= n}}

InitDetect ==
    /\ pc = "called"
    /\ args \in {[op |-> "detect_format", columns |-> c] : c \in SubSeqsUpTo(DetectPool, MaxDetectCols)}
    /\ ret = NA

DetectFormatCall ==
    /\ pc = "called"
    /\ args.op = "detect_format"
    /\ ret' = detect_format(args.columns)
    /\ pc' = "returned"
    /\ UNCHANGED args

NextDetect == DetectFormatCall

SpecDetect == InitDetect /\ [][NextDetect]_vars

(***************************************************************************)
(* Tables of the input sets: the cells of a table are drawn by a fixed     *)
(* rotation over FillValues, so that strings in both regional styles, a    *)
(* number, unparseable text and nulls occur in every column position.      *)
(***************************************************************************)
FillValues ==
    <<StrCell(S_1p000c00), NumCell(NormDec(-5, 0)), StrCell(S_garbage), StrCell(S_american), NA,
      StrCell(S_12c5)>>

Fill(i, r) == FillValues[((i + 2 * r) % Len(FillValues)) + 1]

MkTable(header, n) ==
    [cols |-> header,
     rows |-> [r \in 1..n |-> [i \in 1..Len(header) |-> Fill(i, r)]]]

MaxRows == 2

(***************************************************************************)
(* unpivot_years as a call: a concept column, an optional date column and  *)
(* year columns drawn from YearNames; year_cols lists them in any order,   *)
(* and the table may lack the column listed last.                          *)
(***************************************************************************)
YearNames == <<N_a2020, N_a2021, N_2023, N_b2020, N_a2020a, N_data2020>>

MaxYearCols == 2

\* the sequences without repetition of at most n entries of pool
RECURSIVE ArrangementsUpTo(_, _)
ArrangementsUpTo(pool, n) ==
    IF n = 0 THEN {<<>>}
    ELSE LET shorter == ArrangementsUpTo(pool, n - 1)
         IN  shorter \cup {Append(a, pool[i]) :
                              a \in {b \in shorter : Len(b) = n - 1},
                              i \in 1..Len(pool)}

NoRepeat(a) == \A i, j \in 1..Len(a) : i # j => a[i] # a[j]

UnpivotInputs ==
    {[op |-> "unpivot_years",
      df |-> MkTable(<<T_concepto>> \o (IF dated THEN <<T_fecha>> ELSE <<>>)
                     \o SelectSeq(YearNames,
                                  LAMBDA y : InSeq(y, IF missing
                                                      THEN SubSeq(ys, 1, Len(ys) - 1) ELSE ys)),
                     n),
      concept_col |-> T_concepto,
      year_cols |-> ys] :
        ys \in {a \in ArrangementsUpTo(YearNames, MaxYearCols) : a # <<>> /\ NoRepeat(a)},
        n \in 0..MaxRows, dated \in BOOLEAN, missing \in BOOLEAN}

InitUnpivot ==
    /\ pc = "called"
    /\ args \in UnpivotInputs
    /\ ret = NA

UnpivotYearsCall ==
    /\ pc = "called"
    /\ args.op = "unpivot_years"
    /\ ret' = unpivot_years(args.df, args.concept_col, args.year_cols)
    /\ pc' = "returned"
    /\ UNCHANGED args

NextUnpivot == UnpivotYearsCall

SpecUnpivot == InitUnpivot /\ [][NextUnpivot]_vars

(***************************************************************************)
(* normalize as a call.  The tables have at most MaxCols of the columns of *)
(* ColumnPool and 1..MaxRows rows; the mapping sets the concept role and   *)
(* the debit/credit roles, the rules request any of the transformations.   *)
(***************************************************************************)
ColumnPool == <<N_Concepto, N_a2020, N_a2021, T_debe, T_haber, T_importe>>

MaxCols == 3

\* the one-row statement the specification quotes, the same with text in a year
\* cell, and a ledger row with text in the debit cell
QuotedTables ==
    {[cols |-> <<N_Concepto, N_a2020, N_a2021>>,
      rows |-> << <<StrCell(S_garbage), StrCell(v), StrCell(S_1p500c00)>> >>] :
         v \in {S_1p000c00, S_garbage}}
    \cup {[cols |-> <<T_debe, T_haber>>, rows |-> << <<StrCell(S_garbage), StrCell(S_12c5)>> >>]}

Tables ==
    {MkTable(h, n) : h \in SubSeqsUpTo(ColumnPool, MaxCols) \ {<<>>}, n \in 1..MaxRows}
    \cup QuotedTables

\* a dict with the one key, and the dict without it
Entry(key, value) == key :> value

NoEntry == <<>>

ConceptMappings ==
    {NoEntry, Entry("concept_column", T_concepto), Entry("concept_column", N_Concepto),
     Entry("concept_column", T_nombre), Entry("concept_column", NoneV)}

DebitCreditMappings ==
    {NoEntry,
     Entry("debit_column", T_debe) @@ Entry("credit_column", T_haber),
     Entry("debit_column", N_Debe) @@ Entry("credit_column", T_haber)}

Mappings == {c @@ d : c \in ConceptMappings, d \in DebitCreditMappings}

UnpivotRules ==
    {NoEntry,
     Entry("unpivot", TRUE),
     Entry("unpivot", TRUE) @@ Entry("unpivot_year_columns", <<N_a2020, N_a2021>>),
     Entry("unpivot", TRUE) @@ Entry("unpivot_year_columns", <<N_a2021, N_a2099>>)}

FlagRules(key, value) == {NoEntry, Entry(key, value)}

RulesSet ==
    {u @@ d @@ i : u \in UnpivotRules, d \in FlagRules("debe_haber", TRUE),
                   i \in FlagRules("invert_negatives", TRUE)}

Init ==
    /\ pc = "called"
    /\ args \in {[op |-> "normalize", data |-> t, mapping |-> m, rules |-> r] :
                    t \in Tables, m \in Mappings, r \in RulesSet}
    /\ ret = NA

NormalizeCall ==
    /\ pc = "called"
    /\ args.op = "normalize"
    /\ ret' = normalize(args.data, args.mapping, args.rules)
    /\ pc' = "returned"
    /\ UNCHANGED args

Next == NormalizeCall

Spec == Init /\ [][Next]_vars

(***************************************************************************)
(* Claims about clean_numeric (checked under SpecClean)                    *)
(***************************************************************************)
\* the string clean_numeric looks at: currency symbols and whitespace removed
Bare(value) == SelectSeq(CellStr(value), LAMBDA c : c \notin CurrencySymbols \cup Whitespace)

WithoutChar(t, c) == SelectSeq(t, LAMBDA x : x # c)

CharAs(t, c, d) == [i \in 1..Len(t) |-> IF t[i] = c THEN d ELSE t[i]]

FloatOrZero(t) == IF ParseFloat(t).ok THEN ParseFloat(t).v ELSE Zero

\* the separator at the highest position of t
LastSeparator(t) ==
    t[CHOOSE i \in 1..Len(t) :
        /\ t[i] \in {",", "."}
        /\ \A j \in (i + 1)..Len(t) : t[j] \notin {",", "."}]

OtherSeparator(c) == IF c = "," THEN "." ELSE ","

\* the same digits written in the other regional style
SwapSeparators(t) ==
    [i \in 1..Len(t) |-> IF t[i] \in {",", "."} THEN OtherSeparator(t[i]) ELSE t[i]]

IsDigits(t) == \A i \in 1..Len(t) : t[i] \in Digits

CleanReturned == pc = "returned" /\ args.op = "clean_numeric" /\ args.value.t = "str"

\* C9: with both ',' and '.' in the string, the separator occurring last is the
\* decimal separator and every occurrence of the other one is removed; the two
\* regional spellings of a string give the same float, and "1.234,56" and
\* "1,234.56" both give 1234.56.
C9_LastSeparatorIsDecimal ==
    CleanReturned =>
        LET t == Bare(args.value)
        IN  /\ (HasChar(t, ",") /\ HasChar(t, ".")) =>
                  /\ ret = FloatOrZero(CharAs(WithoutChar(t, OtherSeparator(LastSeparator(t))),
                                              LastSeparator(t), "."))
                  /\ ret = clean_numeric(StrCell(SwapSeparators(t)))
            /\ args.value.s \in {S_european, S_american} => ret = NormDec(123456, 2)

C9_Witness ==
    /\ CleanReturned
    /\ args.value.s = S_european
    /\ ret = NormDec(123456, 2)

\* C10: with ',' and no '.', the comma is the decimal separator iff a comma lies
\* within the last 3 characters, and otherwise all commas are stripped: "12,5"
\* gives 12.5, "1,234" gives 1234.0 and "12,000" gives 12000.0.
C10_CommaOnly ==
    CleanReturned =>
        LET t      == Bare(args.value)
            last3  == \E i \in 1..Len(t) : i >= Len(t) - 2 /\ t[i] = ","
            commas == {i \in 1..Len(t) : t[i] = ","}
        IN  /\ (HasChar(t, ",") /\ ~HasChar(t, ".")) =>
                  /\ last3 => ret = FloatOrZero(CharAs(t, ",", "."))
                  /\ ~last3 => ret = FloatOrZero(WithoutChar(t, ","))
                  /\ (Cardinality(commas) = 1 /\ IsDigits(WithoutChar(t, ",")) /\ Len(t) > 1) =>
                        LET after == Len(t) - (CHOOSE i \in commas : TRUE)
                        IN  ret = NormDec(DigitsToInt(WithoutChar(t, ",")),
                                          IF after <= 2 THEN after ELSE 0)
            /\ args.value.s = S_12c5 => ret = NormDec(125, 1)
            /\ args.value.s = S_1c234 => ret = NormDec(1234, 0)
            /\ args.value.s = S_12c000 => ret = NormDec(12000, 0)

C10_Witness ==
    /\ CleanReturned
    /\ args.value.s = S_1c234
    /\ ret = NormDec(1234, 0)

(***************************************************************************)
(* Claims about detect_format (checked under SpecDetect)                   *)
(***************************************************************************)
DetectReturned == pc = "returned" /\ args.op = "detect_format"

\* the names as the table model of the specification has them
TrimmedLower(columns) == [i \in 1..Len(columns) |-> Strip(Lower(columns[i]))]

\* some column name contains a term of the family
Mentions(columns, terms) ==
    \E i \in 1..Len(columns), k \in 1..Len(terms) : Contains(TrimmedLower(columns)[i], terms[k])

Letters == {LowerChars[i] : i \in 1..Len(LowerChars)}

\* exactly four digits, after at most one leading character of `lead`
FourDigitsAfter(c, lead) ==
    /\ Len(c) \in {4, 5}
    /\ \A i \in (Len(c) - 3)..Len(c) : c[i] \in Digits
    /\ Len(c) = 5 => c[1] \in lead

YearCount(columns) ==
    Cardinality({i \in 1..Len(columns) : FourDigitsAfter(TrimmedLower(columns)[i], {"a"})})

Rule1(columns) == YearCount(columns) >= 2 /\ Mentions(columns, ConceptTerms)

Rule2(columns) ==
    /\ Mentions(columns, BudgetTerms) /\ Mentions(columns, ActualTerms)
    /\ (Mentions(columns, CategoryTerms) \/ Mentions(columns, ConceptTerms))

Rule3(columns) == Mentions(columns, DateTerms) /\ Mentions(columns, AmountTerms)

Rule4(columns) == Mentions(columns, DebitTerms) /\ Mentions(columns, CreditTerms)

Is(kind, confidence) == ret.format = kind /\ ret.confidence = confidence

\* C4: the rules are applied in priority order and the first match wins:
\* financial statement (0.9), budget (0.95), transactional by date and amount
\* (0.85), transactional by debit and credit (0.80), otherwise unknown (0.0).
C4_PriorityOrder ==
    DetectReturned =>
        LET c == args.columns
        IN  /\ Rule1(c) => Is("financial_statement", 9000)
            /\ (~Rule1(c) /\ Rule2(c)) => Is("budget", 9500)
            /\ (~Rule1(c) /\ ~Rule2(c) /\ Rule3(c)) => Is("transactional", 8500)
            /\ (~Rule1(c) /\ ~Rule2(c) /\ ~Rule3(c) /\ Rule4(c)) => Is("transactional", 8000)
            /\ (~Rule1(c) /\ ~Rule2(c) /\ ~Rule3(c) /\ ~Rule4(c)) => Is("unknown", 0)

\* a table that satisfies the first two rules at once is a financial statement
C4_Witness ==
    /\ DetectReturned
    /\ Rule1(args.columns) /\ Rule2(args.columns)
    /\ Is("financial_statement", 9000)

\* C5: the warnings of detect are exactly: financial statement, the 3-years
\* warning iff fewer than 3 year columns; budget, none; transactional by date
\* and amount, the limited-analysis warning iff no category term; transactional
\* by debit and credit, the signed-amount warning; unknown, the
\* could-not-determine warning.
C5_Warnings ==
    DetectReturned =>
        LET c == args.columns
        IN  ret.warnings =
                IF ret.format = "financial_statement"
                THEN (IF YearCount(c) < 3 THEN <<W_ONLY_2_YEARS>> ELSE <<>>)
                ELSE IF ret.format = "budget" THEN <<>>
                ELSE IF ret.format = "transactional" /\ Rule3(c)
                THEN (IF Mentions(c, CategoryTerms) THEN <<>> ELSE <<W_NO_CATEGORY>>)
                ELSE IF ret.format = "transactional" THEN <<W_DEBIT_CREDIT_FORMAT>>
                ELSE <<W_UNKNOWN_FORMAT>>

C5_Witness ==
    /\ DetectReturned
    /\ ret.format = "financial_statement"
    /\ YearCount(args.columns) = 3
    /\ ret.warnings = <<>>

\* the frame normalize holds for a table with these columns, and no year list
FrameOf(columns) == [cols |-> [i \in 1..Len(columns) |-> Lower(Strip(columns[i]))], rows |-> <<>>]

YearLikeUse(lead) ==
    DetectReturned =>
        LET names == TrimmedLower(args.columns)
            years == SelectSeq(names, LAMBDA c : FourDigitsAfter(c, lead))
        IN  /\ detect_year_cols(args.columns) = years
            /\ resolve_year_cols(FrameOf(args.columns), <<>>) = years
            /\ ret.format = "financial_statement" => Len(years) >= 2

\* C6 as stated: a column is year-like iff its trimmed, lower-cased name is an
\* optional single leading letter (any letter) followed by exactly four digits,
\* and detect and the unpivot auto-detection both use exactly this set.
C6_AnyLetter == YearLikeUse(Letters)

\* C6 as amended: the optional leading letter is the letter a, and no other.
C6_LetterA == YearLikeUse({"a"})

C6_Witness ==
    /\ DetectReturned
    /\ InSeq(N_b2020, args.columns) /\ InSeq(N_A2024pad, args.columns)
    /\ Len(detect_year_cols(args.columns)) = 2
    /\ ret.format = "financial_statement"

(***************************************************************************)
(* Claims about unpivot_years (checked under SpecUnpivot)                  *)
(***************************************************************************)
UnpivotReturned == pc = "returned" /\ args.op = "unpivot_years" /\ ret.error = ""

\* the cell of output row o under the label, and of input row r under the label
OutCell(o, label) == ret.df.rows[o][CHOOSE i \in 1..Len(ret.df.cols) : ret.df.cols[i] = label]

InCell(r, label) == args.df.rows[r][CHOOSE i \in 1..Len(args.df.cols) : args.df.cols[i] = label]

\* output row o comes from input row r and year column j
ComesFrom(o, r, j) ==
    /\ \A i \in 1..Len(args.df.cols) :
          ~InSeq(args.df.cols[i], args.year_cols) =>
              OutCell(o, args.df.cols[i]) = InCell(r, args.df.cols[i])
    /\ OutCell(o, C_anio) = StrCell(WithoutChar(args.year_cols[j], "a"))
    /\ OutCell(o, C_importe) = NumCell(clean_numeric(InCell(r, args.year_cols[j])))

\* C7 as stated: R rows and K year columns give R x K rows in row-major order:
\* per original row, one output row per year column in the order of year_cols.
C7_RowMajor ==
    UnpivotReturned =>
        LET R == Len(args.df.rows)
            K == Len(args.year_cols)
        IN  /\ Len(ret.df.rows) = R * K
            /\ \A r \in 1..R, j \in 1..K : ComesFrom((r - 1) * K + j, r, j)

\* C7 as amended: the R x K rows come one block per year column, in the order of
\* year_cols, and inside a block one row per original row in the original order.
C7_ColumnMajor ==
    UnpivotReturned =>
        LET R == Len(args.df.rows)
            K == Len(args.year_cols)
        IN  /\ Len(ret.df.rows) = R * K
            /\ \A r \in 1..R, j \in 1..K : ComesFrom((j - 1) * R + r, r, j)

C7_Witness ==
    /\ UnpivotReturned
    /\ Len(args.df.rows) = 2 /\ args.year_cols = <<N_a2021, N_a2020>>
    /\ Len(ret.df.rows) = 4
    /\ OutCell(1, C_anio) = OutCell(2, C_anio)
    /\ OutCell(1, T_concepto) # OutCell(2, T_concepto)

\* the year column an output row belongs to
YearColOf(o) == args.year_cols[((o - 1) \div Len(args.df.rows)) + 1]

StripLeadingNonDigit(name) ==
    IF name # <<>> /\ name[1] \notin Digits THEN Tail(name) ELSE name

\* C8 as stated: the year value is the column name with a leading non-digit
\* character removed and no other character changed.
C8_LeadingNonDigit ==
    UnpivotReturned =>
        \A o \in 1..Len(ret.df.rows) :
            OutCell(o, C_anio) = StrCell(StripLeadingNonDigit(YearColOf(o)))

\* C8 as amended: the year value is the column name with every character a
\* removed and no other character changed; for a name of the year pattern
\* (auto-detected) that is its four digits.
C8_EveryA ==
    UnpivotReturned =>
        \A o \in 1..Len(ret.df.rows) :
            LET name == YearColOf(o)
            IN  /\ OutCell(o, C_anio) = StrCell(WithoutChar(name, "a"))
                /\ FourDigitsAfter(name, {"a"}) =>
                      OutCell(o, C_anio) = StrCell(SubSeq(name, Len(name) - 3, Len(name)))

C8_Witness ==
    /\ UnpivotReturned
    /\ args.year_cols = <<N_data2020, N_a2020>>
    /\ Len(ret.df.rows) = 2
    /\ OutCell(1, C_anio) = StrCell(<<"d", "t", "2", "0", "2", "0">>)
    /\ OutCell(2, C_anio) = StrCell(<<"2", "0", "2", "0">>)

(***************************************************************************)
(* Claims about normalize (checked under Spec)                             *)
(***************************************************************************)
NormalizeReturned == pc = "returned" /\ args.op = "normalize"

\* C1: for every list of row mappings, every mapping and every rules value
\* normalize returns a complete result and never raises.
C1_NeverRaises == NormalizeReturned => ~ret.raised

\* a requested step that ran without raising and logged no transformation
Skipped(requested, before, after) ==
    /\ requested
    /\ before.error = "" /\ after.error = ""
    /\ after.transformations = before.transformations

\* the skipped step changed no cell and added a warning that reaches the result
NoOpWithWarning(before, after) ==
    /\ after.df = before.df
    /\ Len(after.warnings) > Len(before.warnings)
    /\ \A i \in 1..Len(after.warnings) : InSeq(after.warnings[i], ret.warnings)

\* C2: a requested transformation (debit/credit merge, unpivot, invert
\* negatives) that is not applied because its preconditions are not met leaves
\* the table unchanged, appends at least one warning, and the later steps run.
C2_SkippedStepWarns ==
    (NormalizeReturned /\ ~ret.raised) =>
        LET d == args.data
            m == args.mapping
            r == args.rules
        IN  /\ Skipped(Get(r, "debe_haber", FALSE), after_detect(d, r), after_debe_haber(d, m, r))
               => NoOpWithWarning(after_detect(d, r), after_debe_haber(d, m, r))
            /\ Skipped(Get(r, "unpivot", FALSE), after_debe_haber(d, m, r), after_unpivot(d, m, r))
               => NoOpWithWarning(after_debe_haber(d, m, r), after_unpivot(d, m, r))
            /\ Skipped(Get(r, "invert_negatives", FALSE), after_unpivot(d, m, r),
                       after_invert(d, m, r))
               => NoOpWithWarning(after_unpivot(d, m, r), after_invert(d, m, r))

\* the labels of the table as normalize sees them
Labels(data) == [i \in 1..Len(data.cols) |-> Lower(Strip(data.cols[i]))]

DataCell(data, r, label) ==
    data.rows[r][CHOOSE i \in 1..Len(data.cols) : Labels(data)[i] = label]

\* the request of C3: only the unpivot rule with listed year columns of the
\* table, and a mapping that names the concept column of the table
UnpivotRequest ==
    /\ NormalizeReturned
    /\ DOMAIN args.rules = {"unpivot", "unpivot_year_columns"}
    /\ args.rules["unpivot"]
    /\ \A j \in 1..Len(args.rules["unpivot_year_columns"]) :
          InSeq(args.rules["unpivot_year_columns"][j], Labels(args.data))
    /\ DOMAIN args.mapping = {"concept_column"}
    /\ args.mapping["concept_column"] = T_concepto
    /\ InSeq(T_concepto, Labels(args.data))

\* C3: a table with a concept column, R rows and K listed year columns gives
\* R x K rows, format transactional, the concept, year and amount columns, and
\* every amount is clean_numeric of the original cell.
C3_UnpivotEndToEnd ==
    UnpivotRequest =>
        LET ys == args.rules["unpivot_year_columns"]
            R  == Len(args.data.rows)
            K  == Len(ys)
        IN  /\ ~ret.raised
            /\ ret.rows = R * K
            /\ Len(ret.normalized_data) = R * K
            /\ ret.format_detected = "transactional"
            /\ InSeq(T_concepto, ret.columns)
            /\ InSeq(C_anio, ret.columns)
            /\ InSeq(C_importe, ret.columns)
            /\ \A r \in 1..R, j \in 1..K :
                  \E o \in 1..Len(ret.normalized_data) :
                      /\ ret.normalized_data[o][T_concepto] = DataCell(args.data, r, T_concepto)
                      /\ ret.normalized_data[o][C_importe] =
                            NumCell(clean_numeric(DataCell(args.data, r, ys[j])))

(***************************************************************************)
(* Claims about the value clean_numeric returns (checked under SpecClean)  *)
(***************************************************************************)
CleanCalled == pc = "returned" /\ args.op = "clean_numeric"

HasDigit(t) == \E i \in 1..Len(t) : t[i] \in Digits

\* C11: clean_numeric returns a float for every value and never raises; null
\* and the empty string give 0.0, and a string that encodes no number (here: a
\* string without any digit) gives 0.0.
C11_ZeroOnGarbage ==
    CleanCalled =>
        /\ ret.k \in {"fin", "nan", "inf"}
        /\ (IsNA(args.value) \/ args.value = StrCell(<<>>)) => ret = Zero
        /\ (args.value.t = "str" /\ ~HasDigit(args.value.s)) => ret = Zero

\* what C11 promises and the code keeps: text that is not a float word gives 0.0
C11_Witness ==
    /\ CleanCalled
    /\ args.value = StrCell(S_garbage)
    /\ ret = Zero

\* a one-row table with the value in a year column, and in a debit column
YearTableOf(value) ==
    [cols |-> <<T_concepto, N_a2020>>, rows |-> << <<StrCell(S_garbage), value>> >>]

DebitTableOf(value) ==
    [cols |-> <<T_debe, T_haber>>, rows |-> << <<value, StrCell(<<"0">>)>> >>]

FiniteCell(c) == c.t = "num" /\ c.n.k = "fin"

\* C12: clean_numeric never returns NaN or an infinity, also not for the strings
\* nan, inf and infinity, and so the amount unpivot and the debit/credit merge
\* compute from the value is finite.
C12_AlwaysFinite ==
    CleanCalled =>
        /\ ret.k = "fin"
        /\ FiniteCell(unpivot_years(YearTableOf(args.value), T_concepto, <<N_a2020>>).df.rows[1][3])
        /\ FiniteCell(apply_debe_haber(DebitTableOf(args.value), T_debe, T_haber).rows[1][1])

(***************************************************************************)
(* apply_debe_haber as a call: tables of at most MaxCols of the columns of *)
(* MergePool, with any two of their columns as the debit and the credit    *)
(* column.                                                                 *)
(***************************************************************************)
MergePool == <<T_concepto, T_debe, T_haber, T_importe, C_debe_clean>>

MergeInputs ==
    UNION {{[op |-> "apply_debe_haber", df |-> MkTable(h, n),
             debit_col |-> h[d], credit_col |-> h[c]] :
                n \in 0..MaxRows, d \in 1..Len(h), c \in 1..Len(h)} :
           h \in SubSeqsUpTo(MergePool, MaxCols) \ {<<>>}}

InitMerge ==
    /\ pc = "called"
    /\ args \in MergeInputs
    /\ ret = NA

ApplyDebeHaberCall ==
    /\ pc = "called"
    /\ args.op = "apply_debe_haber"
    /\ ret' = apply_debe_haber(args.df, args.debit_col, args.credit_col)
    /\ pc' = "returned"
    /\ UNCHANGED args

NextMerge == ApplyDebeHaberCall

SpecMerge == InitMerge /\ [][NextMerge]_vars

(***************************************************************************)
(* Claims about apply_debe_haber (checked under SpecMerge)                 *)
(***************************************************************************)
MergeReturned == pc = "returned" /\ args.op = "apply_debe_haber"

\* the columns of the table given that are neither the debit nor the credit column
OtherColumns == SelectSeq(args.df.cols, LAMBDA c : c \notin {args.debit_col, args.credit_col})

\* C13: the merge gives every row amount = clean_numeric(debit) - clean_numeric(credit)
\* in an amount column, removes the two source columns and the two intermediate
\* columns, and leaves every other column and the order of the rows unchanged.
C13_MergeDebitCredit ==
    MergeReturned =>
        /\ Len(ret.rows) = Len(args.df.rows)
        /\ HasCol(ret, C_importe)
        /\ \A c \in {args.debit_col, args.credit_col, C_debe_clean, C_haber_clean} : ~HasCol(ret, c)
        /\ HasCol(ret, C_importe) =>
              \A r \in 1..Len(args.df.rows) :
                  Column(ret, C_importe)[r] =
                      NumCell(Sub(clean_numeric(Column(args.df, args.debit_col)[r]),
                                  clean_numeric(Column(args.df, args.credit_col)[r])))
        /\ SelectSeq(ret.cols, LAMBDA c : c # C_importe)
               = SelectSeq(OtherColumns, LAMBDA c : c # C_importe)
        /\ \A i \in 1..Len(OtherColumns) :
              /\ HasCol(ret, OtherColumns[i])
              /\ Column(ret, OtherColumns[i]) = Column(args.df, OtherColumns[i])

\* a merge of debe and haber that carries the concept column along
C13_Witness ==
    /\ MergeReturned
    /\ args.df.cols = <<T_concepto, T_debe, T_haber>>
    /\ args.debit_col = T_debe /\ args.credit_col = T_haber
    /\ Len(args.df.rows) = 2
    /\ ret.cols = <<T_concepto, T_importe>>

(***************************************************************************)
(* normalize called with the date, amount, category and concept roles: the *)
(* tables have at most MaxCols of the columns of RolePool; a role is       *)
(* absent, None, the name of a column, a name in another case, or a name   *)
(* no column has; two roles may name the same column.                      *)
(***************************************************************************)
N_Date == <<"D", "a", "t", "e">>

RolePool == <<T_date, T_tipo, T_monto, T_nombre, T_importe>>

RoleMappings ==
    {d @@ a @@ g @@ c :
        d \in {NoEntry, Entry("date_column", NoneV), Entry("date_column", T_date),
               Entry("date_column", N_Date), Entry("date_column", N_x)},
        a \in {NoEntry, Entry("amount_column", NoneV), Entry("amount_column", T_monto),
               Entry("amount_column", T_date)},
        g \in {NoEntry, Entry("category_column", T_tipo)},
        c \in {NoEntry, Entry("concept_column", T_nombre), Entry("concept_column", N_x)}}

RoleRules ==
    {i @@ f : i \in FlagRules("invert_negatives", TRUE), f \in FlagRules("detect_format", FALSE)}

InitRoles ==
    /\ pc = "called"
    /\ args \in {[op |-> "normalize", data |-> MkTable(h, n), mapping |-> m, rules |-> r] :
                    h \in SubSeqsUpTo(RolePool, MaxCols) \ {<<>>}, n \in 1..MaxRows,
                    m \in RoleMappings, r \in RoleRules}
    /\ ret = NA

SpecRoles == InitRoles /\ [][Next]_vars

(***************************************************************************)
(* Claims about the renaming step (checked under SpecRoles)                *)
(***************************************************************************)
\* the four roles the renaming step reads, with their canonical names
RenameRoles ==
    {<<"date_column", C_fecha>>, <<"amount_column", C_importe>>,
     <<"category_column", C_categoria>>, <<"concept_column", C_concepto>>}

\* the canonical names of the roles whose mapping entry is set to the label
CanonicalNamesFor(label) ==
    {role[2] : role \in {q \in RenameRoles :
                            /\ q[1] \in DOMAIN args.mapping
                            /\ args.mapping[q[1]] = label}}

InvertApplied ==
    /\ NormalizeReturned /\ ~ret.raised
    /\ Get(args.rules, "invert_negatives", FALSE)
    /\ HasCol(after_unpivot(args.data, args.mapping, args.rules).df,
              Get(args.mapping, "amount_column", C_importe))

\* y is the number cell x with the opposite sign
Negated(x, y) == y.t = "num" /\ y.n.k = x.n.k /\ y.n.m = -x.n.m /\ y.n.e = x.n.e

ListCell == [t |-> "list", s |-> <<>>, n |-> Zero]

K_headers == <<"h", "e", "a", "d", "e", "r", "s">>

K_rows == <<"r", "o", "w", "s">>

\* pd.DataFrame(data): [error, df]
DataFrame(data) ==
    IF data.shape = "scalar" THEN [error |-> "ValueError", df |-> data]
    ELSE IF data.shape = "headers_rows"
    THEN IF Len(data.cols) # Len(data.rows) THEN [error |-> "ValueError", df |-> data]
         ELSE [error |-> "",
               df |-> [cols |-> <<K_headers, K_rows>>,
                       rows |-> [i \in 1..Len(data.cols) |-> <<StrCell(data.cols[i]), ListCell>>]]]
    ELSE [error |-> "", df |-> [cols |-> data.cols, rows |-> data.rows]]

\* FinancialTools._parse_csv_data: [error, df]
parse_csv_data(csv_data) ==
    IF csv_data.shape = "records" THEN DataFrame(csv_data)
    ELSE IF csv_data.shape = "headers_rows"
    THEN IF \E r \in 1..Len(csv_data.rows) : Len(csv_data.rows[r]) # Len(csv_data.cols)
         THEN [error |-> "ValueError", df |-> csv_data]
         ELSE [error |-> "", df |-> [cols |-> csv_data.cols, rows |-> csv_data.rows]]
    ELSE IF csv_data.shape = "columns" THEN DataFrame(csv_data)
    ELSE [error |-> "ValueError", df |-> csv_data]

\* normalize from line 823 on, for a body of any shape
normalize_body(data, mapping, rules) ==
    IF DataFrame(data).error # ""
    THEN assemble([stage_frame([cols |-> <<>>, rows |-> <<>>]) EXCEPT !.error = DataFrame(data).error])
    ELSE normalize(DataFrame(data).df, mapping, rules)

BodyPool == <<N_Concepto, N_a2020, N_a2021, T_fecha, T_importe>>

Bodies ==
    {[shape |-> sh, cols |-> MkTable(h, n).cols, rows |-> MkTable(h, n).rows] :
        sh \in {"records", "headers_rows", "columns"},
        h \in SubSeqsUpTo(BodyPool, MaxCols) \ {<<>>}, n \in 1..MaxRows}
    \cup {[shape |-> "scalar", cols |-> <<>>, rows |-> <<>>]}

InitBody ==
    /\ pc = "called"
    /\ args \in {[op |-> o, data |-> b] : o \in {"_parse_csv_data", "normalize_body"}, b \in Bodies}
    /\ ret = NA

ParseCsvDataCall ==
    /\ pc = "called"
    /\ args.op = "_parse_csv_data"
    /\ ret' = parse_csv_data(args.data)
    /\ pc' = "returned"
    /\ UNCHANGED args

NormalizeBodyCall ==
    /\ pc = "called"
    /\ args.op = "normalize_body"
    /\ ret' = normalize_body(args.data, NoEntry, NoEntry)
    /\ pc' = "returned"
    /\ UNCHANGED args

NextBody == ParseCsvDataCall \/ NormalizeBodyCall

SpecBody == InitBody /\ [][NextBody]_vars

(***************************************************************************)
(* Claims about the accepted representations (checked under SpecBody)      *)
(***************************************************************************)
BodyReturned == pc = "returned" /\ args.op \in {"_parse_csv_data", "normalize_body"}

\* the same data as a list of row mappings
AsRecords(data) == [data EXCEPT !.shape = "records"]

\* what the entry point called returns for a body
EntryPoint(data) ==
    IF args.op = "_parse_csv_data" THEN parse_csv_data(data)
    ELSE normalize_body(data, NoEntry, NoEntry)

\* C16: a table given as a list of row mappings and the same table given as a
\* {headers, rows} pair are accepted by normalize and by the parser of the
\* reporting functions, and both build the same table from them; a body that
\* is not tabular is rejected with an error.
C16_BothRepresentations ==
    BodyReturned =>
        /\ args.data.shape \in {"records", "headers_rows"} =>
              /\ ret.error = ""
              /\ ret = EntryPoint(AsRecords(args.data))
        /\ args.data.shape = "scalar" => ret.error # ""

\* the parser builds the table of a {headers, rows} pair
C16_Witness ==
    /\ BodyReturned
    /\ args.op = "_parse_csv_data"
    /\ args.data.shape = "headers_rows"
    /\ ret.error = ""
    /\ ret.df.cols = <<N_Concepto, N_a2020>> /\ Len(ret.df.rows) = 2

(***************************************************************************)
(* Claims about unparseable cells (checked under Spec)                     *)
(***************************************************************************)
\* a string cell that is not empty and that float() refuses after the cleaning
Unparseable(c) == c.t = "str" /\ c.s # <<>> /\ ~ParseFloat(FixSeparators(Bare(c))).ok

\* some cell of the listed columns of the frame is unparseable
UnparseableIn(df, labels) ==
    \E j \in 1..Len(labels), r \in 1..Len(df.rows) :
        HasCol(df, labels[j]) /\ Unparseable(Column(df, labels[j])[r])

\* a step of the run logged a transformation
Ran(before, after) == after.error = "" /\ after.transformations # before.transformations

\* unpivot or the debit/credit merge has cleaned a cell that is not a number
UnparseableCleaned ==
    LET d == args.data
        m == args.mapping
        r == args.rules
    IN  \/ /\ Ran(after_detect(d, r), after_debe_haber(d, m, r))
           /\ UnparseableIn(after_detect(d, r).df,
                            <<Get(m, "debit_column", NoneV), Get(m, "credit_column", NoneV)>>)
        \/ /\ Ran(after_debe_haber(d, m, r), after_unpivot(d, m, r))
           /\ UnparseableIn(after_debe_haber(d, m, r).df,
                            resolve_year_cols(after_debe_haber(d, m, r).df, r))

\* the table with a zero written in place of every unparseable cell
Repaired(data) ==
    [data EXCEPT !.rows = [r \in 1..Len(data.rows) |->
                              [i \in 1..Len(data.cols) |->
                                  IF Unparseable(data.rows[r][i]) THEN StrCell(<<"0">>)
                                  ELSE data.rows[r][i]]]]

\* C17: a cell that clean_numeric cannot parse in unpivot or in the merge shows
\* in the result: compared with the run on the repaired table there is a
\* further warning and the confidence is lower.
C17_UnparseableSurfaced ==
    (NormalizeReturned /\ ~ret.raised /\ UnparseableCleaned) =>
        LET repaired == normalize(Repaired(args.data), args.mapping, args.rules)
        IN  /\ Len(ret.warnings) > Len(repaired.warnings)
            /\ ret.confidence < repaired.confidence \/ repaired.confidence = 0

(***************************************************************************)
(* Concurrent calls of normalize.  The request objects live in args.heap,  *)
(* args.given keeps them as the callers built them, and args.ref[c] is the *)
(* object caller c passes (two callers may pass the same one).  A call     *)
(* runs stage by stage on its own frame ret[c]; pc[c] counts the stages    *)
(* done, LastStage meaning returned, and callers interleave between any    *)
(* two stages.  A caller that has its result may call again.               *)
(***************************************************************************)
MaxCallers == 2

Callers == 1..MaxCallers

\* the stage after which normalize returns: line 1431
LastStage == 9

\* run_stage with the stripped, lower-cased labels written back into the rows given
run_stage_aliased(k, st, input) ==
    [input |-> IF k = 1 THEN [input EXCEPT !.data.cols = stage_frame(input.data).df.cols]
               ELSE input,
     st |-> CASE k = 1 -> stage_frame(input.data)
              [] k = 2 -> stage_drop_rows(st, input.rules)
              [] k = 3 -> stage_drop_columns(st, input.rules)
              [] k = 4 -> stage_detect(st, input.rules)
              [] k = 5 -> stage_debe_haber(st, input.mapping, input.rules)
              [] k = 6 -> stage_unpivot(st, input.mapping, input.rules)
              [] k = 7 -> stage_invert(st, input.mapping, input.rules)
              [] k = 8 -> stage_rename(st, input.mapping)
              [] OTHER -> assemble(stage_validate(st))]

\* stage k of normalize on the frame st of the call: what it leaves of the
\* request object (pd.DataFrame copies the rows; mapping and rules are only
\* read with get) and the frame after it
run_stage(k, st, input) ==
    [input |-> input,
     st |-> CASE k = 1 -> stage_frame(input.data)
              [] k = 2 -> stage_drop_rows(st, input.rules)
              [] k = 3 -> stage_drop_columns(st, input.rules)
              [] k = 4 -> stage_detect(st, input.rules)
              [] k = 5 -> stage_debe_haber(st, input.mapping, input.rules)
              [] k = 6 -> stage_unpivot(st, input.mapping, input.rules)
              [] k = 7 -> stage_invert(st, input.mapping, input.rules)
              [] k = 8 -> stage_rename(st, input.mapping)
              [] OTHER -> assemble(stage_validate(st))]

Requests ==
    {[data |-> t, mapping |-> m, rules |-> r] :
        t \in {MkTable(<<N_Concepto, N_a2020, N_a2021>>, MaxRows),
               MkTable(<<T_debe, T_haber, T_importe>>, MaxRows)},
        m \in {Entry("concept_column", T_concepto)
               @@ Entry("debit_column", T_debe) @@ Entry("credit_column", T_haber)},
        r \in {Entry("unpivot", TRUE) @@ Entry("invert_negatives", TRUE),
               Entry("debe_haber", TRUE)}}

InitCalls ==
    /\ pc = [c \in Callers |-> 0]
    /\ args \in {[op |-> "normalize_calls", heap |-> <<a, b>>, given |-> <<a, b>>, ref |-> f] :
                    a \in Requests, b \in Requests, f \in [Callers -> {1, 2}]}
    /\ ret = [c \in Callers |-> NA]

\* caller c, holding a result, calls again with either object
CallAgain(c) ==
    /\ pc[c] = LastStage
    /\ \E o \in {1, 2} : args' = [args EXCEPT !.ref[c] = o]
    /\ pc' = [pc EXCEPT ![c] = 0]
    /\ ret' = [ret EXCEPT ![c] = NA]

\* the call of caller c runs its next stage
StageStep(c) ==
    /\ pc[c] < LastStage
    /\ LET out == run_stage(pc[c] + 1, ret[c], args.heap[args.ref[c]])
       IN  /\ ret' = [ret EXCEPT ![c] = out.st]
           /\ args' = [args EXCEPT !.heap[args.ref[c]] = out.input]
    /\ pc' = [pc EXCEPT ![c] = pc[c] + 1]

NextCalls == \E c \in Callers : CallAgain(c) \/ StageStep(c)

SpecCalls == InitCalls /\ [][NextCalls]_vars

(***************************************************************************)
(* Claims about concurrent calls (checked under SpecCalls)                 *)
(***************************************************************************)
\* what a single call, alone, returns for the object as it was given
AloneResult(c) ==
    LET g == args.given[args.ref[c]] IN normalize(g.data, g.mapping, g.rules)

PrunePool == <<T_concepto, N_a2020, T_importe>>

PruneCells == {NA, StrCell(<<>>), StrCell(S_12c5)}

PruneTables ==
    UNION {{[cols |-> h, rows |-> rs] : rs \in [1..n -> [1..Len(h) -> PruneCells]]} :
           h \in SubSeqsUpTo(PrunePool, MaxCols) \ {<<>>}, n \in 1..MaxRows}

PruneRules ==
    {r @@ c : r \in FlagRules("drop_empty_rows", FALSE), c \in FlagRules("drop_empty_columns", FALSE)}

InitPrune ==
    /\ pc = "called"
    /\ args \in {[op |-> "normalize", data |-> t, mapping |-> NoEntry, rules |-> r] :
                    t \in PruneTables, r \in PruneRules}
    /\ ret = NA

SpecPrune == InitPrune /\ [][Next]_vars

(***************************************************************************)
(* Claims about pruning (checked under SpecPrune)                          *)
(***************************************************************************)
\* the pruning steps of lines 831-843 applied to a stage
Pruned(st) == stage_drop_columns(stage_drop_rows(st, args.rules), args.rules)

\* C19: pruning is idempotent: the two pruning steps applied to the table they
\* have produced remove no row and no column, log nothing and give that table.
C19_PruneIdempotent ==
    (NormalizeReturned /\ ~ret.raised) =>
        LET once == after_prune(args.data, args.rules)
        IN  /\ Pruned(once).df = once.df
            /\ Pruned(once).transformations = once.transformations

\* a first application that removed a row and a column and left a table
C19_Witness ==
    /\ NormalizeReturned /\ ~ret.raised
    /\ args.rules = NoEntry
    /\ Len(after_prune(args.data, args.rules).transformations) = 2
    /\ Len(args.data.rows) = 2 /\ Len(args.data.cols) = 3
    /\ ret.rows = 1 /\ Len(ret.columns) = 2

(***************************************************************************)
(* Claims about the concept column of unpivot (checked under Spec)         *)
(***************************************************************************)
\* the unpivot rule is set and the year columns are resolved
UnpivotResolved ==
    /\ NormalizeReturned /\ ~ret.raised
    /\ Get(args.rules, "unpivot", FALSE)
    /\ resolve_year_cols(after_debe_haber(args.data, args.mapping, args.rules).df, args.rules) # <<>>

\* the mapping sets the concept role to a column of the frame
ConceptRoleValid(df) ==
    /\ "concept_column" \in DOMAIN args.mapping
    /\ args.mapping["concept_column"] # NoneV
    /\ HasCol(df, args.mapping["concept_column"])

\* the columns the concept can be: the one the role names when it is valid,
\* otherwise the columns whose name contains a concept term
ConceptCandidates(df) ==
    IF ConceptRoleValid(df) THEN {args.mapping["concept_column"]}
    ELSE {df.cols[i] : i \in {j \in 1..Len(df.cols) :
                                 \E k \in 1..Len(ConceptTerms) : Contains(df.cols[j], ConceptTerms[k])}}

\* C20: with the unpivot rule set and year columns resolved, the concept column
\* is the one the mapping names when that is set and exists, and is otherwise
\* (role unset, or naming a column that does not exist) searched among the
\* column names; when one is found unpivot is applied and the format becomes
\* transactional, when none is found a warning is added and the step is skipped.
C20_ConceptResolution ==
    UnpivotResolved =>
        LET before == after_debe_haber(args.data, args.mapping, args.rules)
            after  == after_unpivot(args.data, args.mapping, args.rules)
            years  == resolve_year_cols(before.df, args.rules)
        IN  IF ConceptCandidates(before.df) # {}
            THEN /\ after.format_detected = "transactional"
                 /\ HasCol(after.df, C_anio) /\ HasCol(after.df, C_importe)
                 /\ Len(after.df.rows) = Len(before.df.rows) * Len(years)
                 /\ \E c \in ConceptCandidates(before.df) : HasCol(after.df, c)
            ELSE /\ after.df = before.df
                 /\ after.warnings = Append(before.warnings, W_NO_CONCEPT)

\* the role is unset and the search finds the column named concepto
C20_Witness ==
    /\ UnpivotResolved
    /\ "concept_column" \notin DOMAIN args.mapping
    /\ args.data.cols = <<N_Concepto, N_a2020, N_a2021>>
    /\ ret.format_detected = "transactional"
    /\ ret.rows = 4

(***************************************************************************)
(* Claims about the amount column of the inversion (checked under          *)
(* SpecRoles)                                                              *)
(***************************************************************************)
RoleKeys ==
    {"date_column", "amount_column", "category_column", "concept_column",
     "budget_column", "actual_column", "debit_column", "credit_column"}

\* request.mapping.dict(): every role is a key, None when it was not given
mapping_dict(mapping) == [k \in RoleKeys |-> Get(mapping, k, NoneV)]

\* the amount column as the rule describes it: the role when provided, else importe
AmountColumn ==
    IF Get(args.mapping, "amount_column", NoneV) # NoneV
    THEN args.mapping["amount_column"] ELSE C_importe

\* the inversion step of the run with mapping m negated the column col
InvertedWith(m, col) ==
    LET before == after_unpivot(args.data, m, args.rules)
        after  == after_invert(args.data, m, args.rules)
    IN  HasCol(before.df, col) =>
            /\ Ran(before, after)
            /\ \A r \in 1..Len(before.df.rows) :
                  LET x == Column(before.df, col)[r]
                      y == Column(after.df, col)[r]
                  IN  IF x.t = "num" THEN Negated(x, y) ELSE y = x

\* C21: with invert_negatives set, the amount column is the one the amount role
\* names when the role is provided and the column importe otherwise, and it is
\* negated whenever it is in the table: when the mapping omits the role and
\* when the mapping carries the role as None, as request.mapping.dict() does.
C21_AmountColumnDefault ==
    (NormalizeReturned /\ ~ret.raised /\ Get(args.rules, "invert_negatives", FALSE)) =>
        /\ InvertedWith(args.mapping, AmountColumn)
        /\ InvertedWith(mapping_dict(args.mapping), AmountColumn)

\* the role is omitted and the column importe, holding -5, is negated
C21_Witness ==
    /\ NormalizeReturned /\ ~ret.raised
    /\ Get(args.rules, "invert_negatives", FALSE)
    /\ "amount_column" \notin DOMAIN args.mapping
    /\ HasCol(args.data, T_importe)
    /\ \E o \in 1..Len(ret.normalized_data) :
          /\ C_importe \in DOMAIN ret.normalized_data[o]
          /\ ret.normalized_data[o][C_importe] = NumCell(NormDec(5, 0))

(***************************************************************************)
(* normalize on statements and movements whose columns carry other names   *)
(* than the canonical ones                                                 *)
(***************************************************************************)
ValidatePool == <<T_nombre, N_a2020, N_a2021, T_date, T_monto>>

ValidateMappings ==
    {c @@ d @@ a :
        c \in {NoEntry, Entry("concept_column", T_nombre)},
        d \in {NoEntry, Entry("date_column", T_date)},
        a \in {NoEntry, Entry("amount_column", T_monto)}}

InitValidate ==
    /\ pc = "called"
    /\ args \in {[op |-> "normalize", data |-> MkTable(h, n), mapping |-> m, rules |-> r] :
                    h \in SubSeqsUpTo(ValidatePool, MaxCols) \ {<<>>}, n \in 1..MaxRows,
                    m \in ValidateMappings, r \in FlagRules("unpivot", TRUE)}
    /\ ret = NA

SpecValidate == InitValidate /\ [][Next]_vars

(***************************************************************************)
(* Claims about the final validation (checked under SpecValidate)          *)
(***************************************************************************)
\* w is ws with at least one more entry at its end
Extends(w, ws) == Len(w) > Len(ws) /\ SubSeq(w, 1, Len(ws)) = ws

\* C22: when the final format is transactional and the column fecha or the
\* column importe is absent from the final columns, validation emits a warning
\* and multiplies the confidence by 0.7; when the final format is
\* financial_statement and the column concepto is absent, it emits a warning
\* and multiplies the confidence by 0.8; in every other case it leaves the
\* confidence and the warnings unchanged.
C22_ValidationPenalty ==
    (NormalizeReturned /\ ~ret.raised) =>
        LET before == after_rename(args.data, args.mapping, args.rules)
            absent(c) == \A i \in 1..Len(ret.columns) : ret.columns[i] # c
        IN  IF ret.format_detected = "transactional" /\ (absent(C_fecha) \/ absent(C_importe))
            THEN /\ Extends(ret.warnings, before.warnings)
                 /\ ret.confidence = round2(Times07(before.confidence))
            ELSE IF ret.format_detected = "financial_statement" /\ absent(C_concepto)
            THEN /\ ret.warnings = Append(before.warnings, W_NO_CONCEPTO)
                 /\ ret.confidence = round2(Times08(before.confidence))
            ELSE /\ ret.warnings = before.warnings
                 /\ ret.confidence = round2(before.confidence)

\* a statement whose concept column is called nombre: 0.9 * 0.8
C22_Witness ==
    /\ NormalizeReturned /\ ~ret.raised
    /\ ret.format_detected = "financial_statement"
    /\ ret.columns = <<T_nombre, N_a2020, N_a2021>>
    /\ ret.confidence = 7200
    /\ ret.warnings = <<W_ONLY_2_YEARS, W_NO_CONCEPTO>>

(***************************************************************************)
(* Claims about what pruning removes (checked under SpecPrune)             *)
(***************************************************************************)
\* a cell that is null or the empty string
EmptyCell(c) == IsNA(c) \/ c = StrCell(<<>>)

BothPruningsOn ==
    /\ Get(args.rules, "drop_empty_rows", TRUE)
    /\ Get(args.rules, "drop_empty_columns", TRUE)

\* the rows of df that have a cell for which filled holds
RowsWith(df, filled(_)) ==
    SelectSeq(df.rows, LAMBDA row : \E i \in 1..Len(row) : filled(row[i]))

\* df without the rows and then without the columns that have no filled cell
PrunedBy(df, filled(_)) ==
    LET rows == RowsWith(df, filled)
        keep == {i \in 1..Len(df.cols) : \E r \in 1..Len(rows) : filled(rows[r][i])}
    IN  [cols |-> PickIdx(df.cols, keep, 1),
         rows |-> [r \in 1..Len(rows) |-> PickIdx(rows[r], keep, 1)]]

\* the log of a pruning that took df to pruned
PruneLog(df, pruned) ==
    (IF Len(pruned.rows) < Len(df.rows)
     THEN <<Log(L_ROWS_DROPPED, Len(df.rows) - Len(pruned.rows), "", <<>>)>> ELSE <<>>)
    \o (IF Len(pruned.cols) < Len(df.cols)
        THEN <<Log(L_COLS_DROPPED, Len(df.cols) - Len(pruned.cols), "", <<>>)>> ELSE <<>>)

NotEmptyCell(c) == ~EmptyCell(c)

\* C23: with both pruning rules set, normalize removes exactly the rows whose
\* every cell is empty or null and then exactly the columns whose every cell is
\* empty or null, keeps the others in order and logs the counts removed;
\* afterwards no all-empty row and no all-empty column remains and every row
\* has the same columns.
C23_PruneExactlyEmpty ==
    (NormalizeReturned /\ ~ret.raised /\ BothPruningsOn) =>
        LET df   == stage_frame(args.data).df
            once == after_prune(args.data, args.rules)
        IN  /\ once.df = PrunedBy(df, NotEmptyCell)
            /\ once.transformations = PruneLog(df, once.df)
            /\ \A r \in 1..Len(once.df.rows) :
                  /\ Len(once.df.rows[r]) = Len(once.df.cols)
                  /\ \E i \in 1..Len(once.df.cols) : ~EmptyCell(once.df.rows[r][i])
            /\ \A i \in 1..Len(once.df.cols) :
                  \E r \in 1..Len(once.df.rows) : ~EmptyCell(once.df.rows[r][i])

\* a null row and a null column were removed from a table of two rows
C23_Witness ==
    /\ NormalizeReturned /\ ~ret.raised /\ BothPruningsOn
    /\ Len(args.data.rows) = 2 /\ Len(args.data.cols) = 3
    /\ ret.rows = 1 /\ Len(ret.columns) = 2
    /\ Len(after_prune(args.data, args.rules).transformations) = 2

(***************************************************************************)
(* Claims about the confidence of a result (checked under SpecRoles)       *)
(***************************************************************************)
\* what detect_format returns for the table the pruning steps left
DetectorConfidence ==
    detect_format(after_prune(args.data, args.rules).df.cols).confidence

\* C24: the confidence of a result lies between 0 and 1, has two decimals and
\* is not larger than the confidence detect_format returns for the pruned
\* table; with detect_format switched off it is 0.0.
C24_ConfidenceBounded ==
    (NormalizeReturned /\ ~ret.raised) =>
        /\ ret.confidence \in 0..10000
        /\ ret.confidence % 100 = 0
        /\ ret.confidence <= DetectorConfidence
        /\ ~Get(args.rules, "detect_format", TRUE) => ret.confidence = 0

\* movements with neither fecha nor importe: 0.85 * 0.7 * 0.7 gives 0.42
C24_Witness ==
    /\ NormalizeReturned /\ ~ret.raised
    /\ DetectorConfidence = CONF_TRANSACTIONAL
    /\ ret.confidence = 4200

(***************************************************************************)
(* Claims about when the debit/credit merge runs (checked under Spec)      *)
(***************************************************************************)
\* the role is set and, names compared trimmed and without case, names a
\* column of df
ResolvesIn(df, role) ==
    LET name == Get(args.mapping, role, NoneV)
    IN  /\ name # NoneV
        /\ \E i \in 1..Len(df.cols) : Lower(Strip(df.cols[i])) = Lower(Strip(name))

\* C25: with debe_haber set, the merge is applied exactly when the debit role
\* and the credit role are both set and name columns of the table, names being
\* compared without case and trimmed; otherwise the warning "Debe/haber
\* solicitado pero columnas no encontradas" is appended and the table is left
\* unchanged.
C25_MergeWhenResolved ==
    (NormalizeReturned /\ ~ret.raised /\ Get(args.rules, "debe_haber", FALSE)) =>
        LET before == after_detect(args.data, args.rules)
            after  == after_debe_haber(args.data, args.mapping, args.rules)
        IN  IF ResolvesIn(before.df, "debit_column") /\ ResolvesIn(before.df, "credit_column")
            THEN /\ Ran(before, after)
                 /\ after.warnings = before.warnings
                 /\ HasCol(after.df, C_importe)
            ELSE /\ after.warnings = Append(before.warnings, W_DEBE_HABER_NOT_FOUND)
                 /\ after.df = before.df
                 /\ after.transformations = before.transformations

\* the roles debe and haber name two columns and the merge has run
C25_Witness ==
    /\ NormalizeReturned /\ ~ret.raised /\ Get(args.rules, "debe_haber", FALSE)
    /\ Get(args.mapping, "debit_column", NoneV) = T_debe
    /\ HasCol(args.data, T_debe) /\ HasCol(args.data, T_haber)
    /\ Ran(after_detect(args.data, args.rules),
           after_debe_haber(args.data, args.mapping, args.rules))

(***************************************************************************)
(* Claims about the result as a whole (checked under SpecRoles)            *)
(***************************************************************************)
Distinct(q) == \A i, j \in 1..Len(q) : i # j => q[i] # q[j]

\* C29: in every result rows is the length of normalized_data, the entries of
\* columns are pairwise distinct and every row of normalized_data has exactly
\* the keys listed in columns, also when the name a column is renamed to is
\* already the name of another column.
C29_EnvelopeConsistent ==
    (NormalizeReturned /\ ~ret.raised) =>
        /\ ret.rows = Len(ret.normalized_data)
        /\ Distinct(ret.columns)
        /\ \A o \in 1..Len(ret.normalized_data) :
              /\ DOMAIN ret.normalized_data[o] = {ret.columns[i] : i \in 1..Len(ret.columns)}
              /\ Cardinality(DOMAIN ret.normalized_data[o]) = Len(ret.columns)

\* a column was renamed to a canonical name no other column has
C29_Witness ==
    /\ NormalizeReturned /\ ~ret.raised
    /\ Get(args.mapping, "amount_column", NoneV) = T_monto
    /\ HasCol(args.data, T_monto) /\ ~HasCol(args.data, T_importe)
    /\ HasCol(after_rename(args.data, args.mapping, args.rules).df, C_importe)
    /\ ret.rows = 2 /\ Len(ret.columns) = 3

(***************************************************************************)
(* FinancialTools: the format detector and the four reports, up to the     *)
(* point where each report has found its columns.  A report that has its   *)
(* columns is the value [kind, data] of the frame it aggregates.           *)
(***************************************************************************)
T_format == <<"f", "o", "r", "m", "a", "t">>

K_data == <<"d", "a", "t", "a">>

\* a cell that holds a Python dict
DictCell == [t |-> "dict", s |-> <<>>, n |-> Zero]

\* FinancialTools._normalize_column_names
normalize_column_names(df) ==
    [df EXCEPT !.cols = [i \in 1..Len(df.cols) |-> Lower(Strip(df.cols[i]))]]

\* FinancialTools._detect_format
FT_detect_format(cols) ==
    LET joined == Lower(JoinSpace(cols))
        any(terms) == \E i \in 1..Len(terms) : Contains(joined, terms[i])
    IN  IF Len(SelectSeq(cols, year_pattern_match)) >= 2
           /\ any(<<T_concepto, T_nombre, T_format>>)
        THEN "financial_statement"
        ELSE IF any(<<T_fecha, T_date>>) /\ any(<<T_importe, T_monto, T_amount>>)
        THEN "transactional"
        ELSE "unknown"

\* some label of df contains one of the terms
LabelWith(df, terms) ==
    \E i \in 1..Len(df.cols) : \E k \in 1..Len(terms) : Contains(df.cols[i], terms[k])

E_WRONG_FORMAT == "CSV no está en formato de estados financieros"

E_NO_CONCEPT_COLUMN == "No se encontró columna de conceptos"

E_IS_STATEMENT == "Este CSV parece ser un estado financiero anual"

E_NO_DATE_AMOUNT == "No se encontraron columnas de fecha o importe"

E_NO_BUDGET_COLUMNS == "Faltan columnas necesarias (categoria, presupuesto, real)"

E_PARSE == "Error al procesar datos"

Report(kind, df) == [error |-> "", kind |-> kind, data |-> df]

Failed(msg) == [error |-> msg]

\* FinancialTools.get_yearly_summary, lines 151-177
get_yearly_summary(csv_data) ==
    IF parse_csv_data(csv_data).error # "" THEN Failed(E_PARSE)
    ELSE LET df == normalize_column_names(parse_csv_data(csv_data).df)
         IN  IF FT_detect_format(df.cols) # "financial_statement" THEN Failed(E_WRONG_FORMAT)
             ELSE IF \A c \in {T_concepto, T_nombre, T_name, T_concept} : ~HasCol(df, c)
             THEN Failed(E_NO_CONCEPT_COLUMN)
             ELSE Report("yearly_summary", df)

\* the column search shared by get_monthly_summary (lines 281-303) and
\* get_cash_flow (lines 430-453)
transactional_report(kind, csv_data) ==
    IF parse_csv_data(csv_data).error # "" THEN Failed(E_PARSE)
    ELSE LET df == normalize_column_names(parse_csv_data(csv_data).df)
         IN  IF FT_detect_format(df.cols) = "financial_statement" THEN Failed(E_IS_STATEMENT)
             ELSE IF ~LabelWith(df, <<T_fecha, T_date>>)
                     \/ ~LabelWith(df, <<T_importe, T_monto, T_amount, T_cantidad>>)
             THEN Failed(E_NO_DATE_AMOUNT)
             ELSE Report(kind, df)

\* FinancialTools.get_budget_variance, lines 341-361
get_budget_variance(csv_data) ==
    IF parse_csv_data(csv_data).error # "" THEN Failed(E_PARSE)
    ELSE LET df == normalize_column_names(parse_csv_data(csv_data).df)
         IN  IF /\ LabelWith(df, <<T_categoria, T_category, T_concepto>>)
                /\ LabelWith(df, <<T_presupuesto, T_budget, T_planeado>>)
                /\ LabelWith(df, <<T_real, T_actual, T_ejecutado>>)
             THEN Report("budget_variance", df)
             ELSE Failed(E_NO_BUDGET_COLUMNS)

run_report(kind, csv_data) ==
    CASE kind = "yearly_summary"  -> get_yearly_summary(csv_data)
      [] kind = "budget_variance" -> get_budget_variance(csv_data)
      [] OTHER                    -> transactional_report(kind, csv_data)

AnalysisKinds == {"yearly_summary", "monthly_summary", "budget_variance", "cash_flow"}

\* analyze_financial_data: the reports of the requested type that returned no
\* error, by kind; the empty mapping is the ValueError of line 165
analyze_financial_data(csv_data, analysis_type) ==
    LET done == {k \in AnalysisKinds :
                    /\ analysis_type \in {k, "all"}
                    /\ run_report(k, csv_data).error = ""}
    IN  [k \in done |-> run_report(k, csv_data)]

\* {"data": csv_data["data"]} as a request to the reports: a dict with the
\* one key 'data', whose list holds one dict per row
data_argument(df) ==
    [shape |-> "columns", cols |-> <<K_data>>,
     rows |-> [r \in 1..Len(df.rows) |-> <<DictCell>>]]

(***************************************************************************)
(* The session store and its endpoints (main_no_ai_v7.py).  args.csvs and  *)
(* args.analyses are the two dicts of the DataStore, args.req[w] is the     *)
(* request worker w is serving and ret[w] its last response.  The async    *)
(* endpoints create_csv and create_analysis run on the event loop, one at  *)
(* a time; the plain endpoints delete_csv, get_analysis and list_analyses  *)
(* run on threads of the pool.  A worker takes one step per access to the  *)
(* store, and the workers interleave between any two steps.                *)
(***************************************************************************)
Loop == "loop"

Threads == {"t1", "t2"}

Workers == {Loop} \cup Threads

Sessions == {"default"}

AnalysisTypes == AnalysisKinds \cup {"all"}

StatementCsv == MkTable(<<N_Concepto, N_a2020, N_a2021>>, 1)

MovementsCsv == MkTable(<<T_fecha, T_importe>>, 1)

\* an upload: what pd.read_csv makes of the file, or its failure
Uploads ==
    {[ok |-> TRUE, df |-> StatementCsv], [ok |-> TRUE, df |-> MovementsCsv],
     [ok |-> FALSE, df |-> MkTable(<<>>, 0)]}

\* d[key] = value
SetItem(d, key, value) == [k \in DOMAIN d \cup {key} |-> IF k = key THEN value ELSE d[k]]

\* del d[key]
DelItem(d, key) == [k \in DOMAIN d \ {key} |-> d[k]]

\* DataStore.store_analysis for every result of a run
store_analyses(analyses, session_id, results) ==
    LET old == Get(analyses, session_id, NoEntry)
    IN  SetItem(analyses, session_id,
                [k \in DOMAIN old \cup DOMAIN results |->
                    IF k \in DOMAIN results THEN results[k] ELSE old[k]])

Response(request, status, body) == [request |-> request, status |-> status, body |-> body]

D_BAD_CSV == "Error processing CSV"

D_CSV_NOT_FOUND == "CSV not found"

D_UPLOAD_FIRST == "CSV not found. Upload a CSV first."

D_ANALYSIS_ERROR == "Analysis error: No se pudo generar ningún análisis. Verifique el formato del CSV."

D_NO_ANALYSES == "not found. Run POST /api/analyses first."

D_DELETED == "CSV deleted successfully"

InitStore ==
    /\ pc = [w \in Workers |-> "idle"]
    /\ args = [op |-> "session", csvs |-> NoEntry, analyses |-> NoEntry,
               req |-> [w \in Workers |-> [op |-> "none"]]]
    /\ ret = [w \in Workers |-> NA]

\* create_csv: lines 203-232
CreateCsv ==
    /\ pc[Loop] = "idle"
    /\ \E sid \in Sessions, up \in Uploads :
          LET q == [op |-> "create_csv", session_id |-> sid, file |-> up]
          IN  IF ~up.ok
              THEN /\ ret' = [ret EXCEPT ![Loop] = Response(q, 400, D_BAD_CSV)]
                   /\ args' = [args EXCEPT !.req[Loop] = q]
              ELSE LET df == normalize_column_names(up.df)
                   IN  /\ args' = [args EXCEPT !.csvs = SetItem(@, sid, df), !.req[Loop] = q]
                       /\ ret' = [ret EXCEPT ![Loop] = Response(q, 200, df.cols)]
    /\ UNCHANGED pc

\* create_analysis up to line 312: the CSV is read from the store
CreateAnalysisGet ==
    /\ pc[Loop] = "idle"
    /\ \E sid \in Sessions, type \in AnalysisTypes :
          LET q == [op |-> "create_analysis", session_id |-> sid,
                    analysis_type |-> type, csv_data |-> Get(args.csvs, sid, NoneV)]
          IN  /\ args' = [args EXCEPT !.req[Loop] = q]
              /\ IF sid \notin DOMAIN args.csvs
                 THEN ret' = [ret EXCEPT ![Loop] = Response(q, 404, D_UPLOAD_FIRST)] /\ UNCHANGED pc
                 ELSE ret' = [ret EXCEPT ![Loop] = NA] /\ pc' = [pc EXCEPT ![Loop] = "analyze"]

\* create_analysis from line 318: the reports run on {"data": csv_data["data"]}
\* and each result is stored; no result is the ValueError, answered with 500
CreateAnalysisRun ==
    /\ pc[Loop] = "analyze"
    /\ LET q       == args.req[Loop]
           results == analyze_financial_data(data_argument(q.csv_data), q.analysis_type)
       IN  IF DOMAIN results = {}
           THEN ret' = [ret EXCEPT ![Loop] = Response(q, 500, D_ANALYSIS_ERROR)] /\ UNCHANGED args
           ELSE /\ args' = [args EXCEPT !.analyses = store_analyses(@, q.session_id, results)]
                /\ ret' = [ret EXCEPT ![Loop] = Response(q, 200, results)]
    /\ pc' = [pc EXCEPT ![Loop] = "idle"]

\* a plain endpoint up to its 404: store.get_csv(session_id)
GetCsvFirst(t, q, next) ==
    /\ args' = [args EXCEPT !.req[t] = q]
    /\ IF q.session_id \notin DOMAIN args.csvs
       THEN ret' = [ret EXCEPT ![t] = Response(q, 404, D_CSV_NOT_FOUND)] /\ UNCHANGED pc
       ELSE ret' = [ret EXCEPT ![t] = NA] /\ pc' = [pc EXCEPT ![t] = next]

\* delete_csv: lines 284-287
DeleteCsvGet(t) ==
    /\ pc[t] = "idle"
    /\ \E sid \in Sessions :
          GetCsvFirst(t, [op |-> "delete_csv", session_id |-> sid], "in_csvs")

\* DataStore.delete_csv: `if session_id in self.csvs`
DeleteCsvCheck(t) ==
    /\ pc[t] = "in_csvs"
    /\ IF args.req[t].session_id \in DOMAIN args.csvs
       THEN pc' = [pc EXCEPT ![t] = "del_csvs"] /\ UNCHANGED ret
       ELSE /\ pc' = [pc EXCEPT ![t] = "idle"]
            /\ ret' = [ret EXCEPT ![t] = Response(args.req[t], 200, D_DELETED)]
    /\ UNCHANGED args

\* DataStore.delete_csv: `del self.csvs[session_id]`, a KeyError when it is gone
DeleteCsvDel(t) ==
    /\ pc[t] = "del_csvs"
    /\ IF args.req[t].session_id \in DOMAIN args.csvs
       THEN /\ args' = [args EXCEPT !.csvs = DelItem(@, args.req[t].session_id)]
            /\ pc' = [pc EXCEPT ![t] = "del_analyses"]
            /\ UNCHANGED ret
       ELSE /\ pc' = [pc EXCEPT ![t] = "idle"]
            /\ ret' = [ret EXCEPT ![t] = Response(args.req[t], 500, "KeyError")]
            /\ UNCHANGED args

\* DataStore.delete_csv: the analyses of the session are deleted; line 289
DeleteCsvAnalyses(t) ==
    /\ pc[t] = "del_analyses"
    /\ args' = [args EXCEPT !.analyses = DelItem(@, args.req[t].session_id)]
    /\ pc' = [pc EXCEPT ![t] = "idle"]
    /\ ret' = [ret EXCEPT ![t] = Response(args.req[t], 200, D_DELETED)]

\* get_analysis: lines 399-402
GetAnalysisGet(t) ==
    /\ pc[t] = "idle"
    /\ \E sid \in Sessions, type \in AnalysisTypes :
          GetCsvFirst(t, [op |-> "get_analysis", session_id |-> sid, analysis_type |-> type],
                      "get_analysis")

\* get_analysis: lines 405-433
GetAnalysisReturn(t) ==
    /\ pc[t] = "get_analysis"
    /\ LET q        == args.req[t]
           analyses == Get(args.analyses, q.session_id, NoEntry)
           found    == IF q.analysis_type = "all" THEN analyses
                       ELSE [k \in DOMAIN analyses \cap {q.analysis_type} |-> analyses[k]]
       IN  ret' = [ret EXCEPT ![t] = IF DOMAIN found = {} THEN Response(q, 404, D_NO_ANALYSES)
                                     ELSE Response(q, 200, found)]
    /\ pc' = [pc EXCEPT ![t] = "idle"]
    /\ UNCHANGED args

\* list_analyses: lines 368-371
ListAnalysesGet(t) ==
    /\ pc[t] = "idle"
    /\ \E sid \in Sessions :
          GetCsvFirst(t, [op |-> "list_analyses", session_id |-> sid], "list_analyses")

\* list_analyses: lines 373-385
ListAnalysesReturn(t) ==
    /\ pc[t] = "list_analyses"
    /\ ret' = [ret EXCEPT ![t] =
                  Response(args.req[t], 200,
                           DOMAIN Get(args.analyses, args.req[t].session_id, NoEntry))]
    /\ pc' = [pc EXCEPT ![t] = "idle"]
    /\ UNCHANGED args

NextStore ==
    \/ CreateCsv
    \/ CreateAnalysisGet
    \/ CreateAnalysisRun
    \/ \E t \in Threads :
          \/ DeleteCsvGet(t)
          \/ DeleteCsvCheck(t)
          \/ DeleteCsvDel(t)
          \/ DeleteCsvAnalyses(t)
          \/ GetAnalysisGet(t)
          \/ GetAnalysisReturn(t)
          \/ ListAnalysesGet(t)
          \/ ListAnalysesReturn(t)

SpecStore == InitStore /\ [][NextStore]_vars

(***************************************************************************)
(* Claims about the analyses of a session (checked under SpecStore)        *)
(***************************************************************************)
\* the stored CSV has a concept column and at least two year columns
StatementShaped(df) ==
    /\ LabelWith(df, ConceptTerms)
    /\ Len(SelectSeq(df.cols, year_pattern_match)) >= 2

\* the stored CSV has a date column and an amount column
MovementsShaped(df) == LabelWith(df, DateTerms) /\ LabelWith(df, AmountTerms)

\* the reports a create_analysis request is to return
ReportsDue(q) ==
    {k \in {"yearly_summary"} : q.analysis_type \in {k, "all"} /\ StatementShaped(q.csv_data)}
    \cup {k \in {"monthly_summary", "cash_flow"} :
             q.analysis_type \in {k, "all"} /\ MovementsShaped(q.csv_data)}

\* C26: create_analysis of type yearly_summary or all on a stored CSV with a
\* concept column and two year columns returns a result with yearly_summary
\* and stores it for the session, where get_analysis finds it; on a stored CSV
\* with a date and an amount column the same holds for monthly_summary and
\* cash_flow.
C26_CreateAnalysisStores ==
    [][(pc[Loop] = "analyze" /\ pc'[Loop] = "idle") =>
          \A k \in ReportsDue(args.req[Loop]) :
              /\ ret'[Loop].status = 200
              /\ k \in DOMAIN ret'[Loop].body
              /\ k \in DOMAIN Get(args'.analyses, args.req[Loop].session_id, NoEntry)]_vars

\* create_analysis has answered a request for the yearly summary of a statement
C26_Witness ==
    /\ pc[Loop] = "idle"
    /\ args.req[Loop].op = "create_analysis"
    /\ args.req[Loop].analysis_type = "yearly_summary"
    /\ "default" \in DOMAIN args.csvs
    /\ "yearly_summary" \in ReportsDue(args.req[Loop])

(***************************************************************************)
(* Claims about interleaved requests (checked under SpecStore)             *)
(***************************************************************************)
\* worker w is inside create_analysis or delete_csv for the session: it has
\* read the store and has not yet answered
InSession(w, sid) ==
    /\ pc[w] \in {"analyze", "in_csvs", "del_csvs", "del_analyses"}
    /\ args.req[w].session_id = sid

\* C27: under any interleaving of create_csv, delete_csv and create_analysis
\* on one session id the requests are served one after the other: no two of
\* them are inside the store for the session at once; every session id with
\* stored analyses has a stored CSV, and no analysis is stored for or outlives
\* a deleted CSV.
C27_SerializedPerSession ==
    \A sid \in Sessions :
        /\ \A w, v \in Workers : (w # v /\ InSession(w, sid)) => ~InSession(v, sid)
        /\ sid \in DOMAIN args.analyses => sid \in DOMAIN args.csvs

\* a delete_csv has removed the CSV of the session while a create_analysis
\* that read it was still running
C27_Witness ==
    /\ pc[Loop] = "analyze"
    /\ \E t \in Threads :
          /\ args.req[t].op = "delete_csv"
          /\ pc[t] = "idle" /\ ret[t].status = 200
    /\ "default" \notin DOMAIN args.csvs

(***************************************************************************)
(* Claims about the analyses returned (checked under SpecStore)            *)
(***************************************************************************)
\* the reports in the set were run on the rows of the CSV df
ComputedFrom(reports, df) ==
    \A k \in DOMAIN reports : reports[k] = run_report(k, data_argument(df))

\* C28: every analysis get_analysis or list_analyses returns for a session was
\* computed from the CSV stored for the session at that moment, so after
\* create_csv has replaced the CSV no analysis of the previous CSV is returned.
C28_OnlyCurrentCsv ==
    [][\A t \in Threads :
          /\ (pc[t] = "get_analysis" /\ pc'[t] = "idle" /\ ret'[t].status = 200) =>
                ComputedFrom(ret'[t].body, args.csvs[args.req[t].session_id])
          /\ (pc[t] = "list_analyses" /\ pc'[t] = "idle") =>
                \A k \in ret'[t].body :
                    ComputedFrom(Entry(k, args.analyses[args.req[t].session_id][k]),
                                 args.csvs[args.req[t].session_id])]_vars

\* list_analyses has answered after the CSV of the session was replaced
C28_Witness ==
    \E t \in Threads :
        /\ pc[t] = "idle" /\ args.req[t].op = "list_analyses" /\ ret[t].status = 200
        /\ args.req[Loop].op = "create_csv" /\ ret[Loop].status = 200

(***************************************************************************)
(* The two detectors on the same column names: detect_format of the        *)
(* normalizer and get_yearly_summary of the reports, called with a table   *)
(* of one row under at most MaxDetectCols names of AgreePool.              *)
(***************************************************************************)
N_nombre_cuenta == <<"n", "o", "m", "b", "r", "e", " ", "c", "u", "e", "n", "t", "a">>

AgreePool ==
    <<N_Concepto, T_nombre, T_name, N_nombre_cuenta, N_a2020, N_a2021, N_2023,
      T_fecha, T_importe, N_x>>

\* the rows of a table given as a list of records
RecordsOf(columns) ==
    [shape |-> "records", cols |-> columns, rows |-> MkTable(columns, 1).rows]

InitAgree ==
    /\ pc = "called"
    /\ args \in {[op |-> o, columns |-> c] :
                    o \in {"detect_format", "get_yearly_summary"},
                    c \in SubSeqsUpTo(AgreePool, MaxDetectCols) \ {<<>>}}
    /\ ret = NA

YearlySummaryCall ==
    /\ pc = "called"
    /\ args.op = "get_yearly_summary"
    /\ ret' = get_yearly_summary(RecordsOf(args.columns))
    /\ pc' = "returned"
    /\ UNCHANGED args

NextAgree == DetectFormatCall \/ YearlySummaryCall

SpecAgree == InitAgree /\ [][NextAgree]_vars

(***************************************************************************)
(* Claims about the agreement of the detectors (checked under SpecAgree)   *)
(***************************************************************************)
AgreeReturned == pc = "returned" /\ args.op \in {"detect_format", "get_yearly_summary"}

\* C30: whenever detect_format of the normalizer classifies the column names as
\* financial_statement, FinancialTools._detect_format returns
\* financial_statement as well and get_yearly_summary finds a concept column:
\* it returns neither the wrong-format error nor the missing-concept error.
C30_DetectorsAgree ==
    AgreeReturned =>
        LET normalizer == IF args.op = "detect_format" THEN ret
                          ELSE detect_format(args.columns)
            summary    == IF args.op = "get_yearly_summary" THEN ret
                          ELSE get_yearly_summary(RecordsOf(args.columns))
        IN  normalizer.format = "financial_statement" =>
                /\ FT_detect_format(TrimmedLower(args.columns)) = "financial_statement"
                /\ summary.error \notin {E_WRONG_FORMAT, E_NO_CONCEPT_COLUMN}

\* a statement under the names Concepto, a2020, a2021, on which both agree
C30_Witness ==
    /\ AgreeReturned
    /\ args.op = "get_yearly_summary"
    /\ args.columns = <<N_Concepto, N_a2020, N_a2021>>
    /\ detect_format(args.columns).format = "financial_statement"
    /\ ret.error = ""

====
